---- MODULE Spec2Model ----
(***************************************************************************)
(* Hybrid retriever v4 (Retriever_Development/v4/hybrid_retriever_v4.py):  *)
(* dense + sparse branch lists -> Reciprocal Rank Fusion -> descending     *)
(* ranking -> MMR diversity selection -> batched payload fetch.            *)
(*                                                                         *)
(* Numbers.  Python floats are modelled as exact rationals.  Every fused   *)
(* score of one call is a multiple of 1/FusedDen(rrf_k), so a score is     *)
(* stored as its integer numerator over that common denominator.  Cosine   *)
(* similarities are numerators over SimDen, lambda is a fraction           *)
(* [num, den].  Rounding of IEEE doubles is not modelled.                  *)
(***************************************************************************)
EXTENDS Integers, Sequences, FiniteSets, TLC

VARIABLES
    cfg,            \* RetrieverConfig of the retriever (self.cfg)
    hashSeed,       \* string-hash seed of the running interpreter, as the
                    \* iteration order it induces on sets of ids
    collection,     \* rows of the Chroma collection: id -> stored embedding
    index,          \* what the two indexes answer to the query: their
                    \* rankings, best first, or an exception; and the
                    \* order in which the collection yields fetched rows
    pc,             \* position inside retrieve()
    k_arg,          \* retrieve: argument k (<<>> is None, <<n>> the int n)
    final_k,        \* retrieve: final_k
    dense,          \* retrieve: dense   (ids, best first)
    sparse,         \* retrieve: sparse  (ids, best first)
    fused_scores,   \* retrieve: fused_scores, a dict in insertion order
    ranked_ids,     \* retrieve: ranked_ids
    rel,            \* _mmr_select: normalised relevance per index
    sim,            \* _mmr_select: doc-doc cosine similarity matrix
    selected,       \* _mmr_select: selected (indices into ranked_ids)
    candidate_idxs, \* _mmr_select: candidate_idxs
    selected_ids,   \* retrieve: selected_ids (value returned by _mmr_select)
    final_payload,  \* retrieve: final_payload
    result,         \* what the latest completed call returned to its caller
    prev_result,    \* what the completed call before that one returned
    calls,          \* concurrent calls of retrieve on one retriever: per
                    \* thread, the frame (arguments and locals) of its call
    branches,       \* the branch searches on raw (id, score) results
    tokenizer,      \* build_bm25_index_v4 and _sparse_search: the
                    \* tokenization of corpus and query
    ctor,           \* HybridRetrieverV4(...): a construction in progress
    builder,        \* build_bm25_index_v4.load_from_chroma: a load in progress
    bridge,         \* retriever_bridge.retrieve_context: a call in progress
    cache,          \* retriever_bridge._get_retriever: its lru_cache and
                    \* the threads calling it
    evalrun         \* evaluate_retriever_v4.main: an evaluation run

vars == <<cfg, hashSeed, collection, index, pc, k_arg, final_k, dense, sparse,
          fused_scores, ranked_ids, rel, sim, selected, candidate_idxs,
          selected_ids, final_payload, result, prev_result, calls, branches,
          tokenizer, ctor, builder, bridge, cache, evalrun>>

\* the retriever and its indexes, fixed while a process runs
envVars == <<cfg, hashSeed, collection, index>>

\* locals of _mmr_select
mmrVars == <<rel, sim, selected, candidate_idxs>>

\* what callers have seen
outVars == <<result, prev_result>>

\* state of the programs around the single call of retrieve followed above
toolVars == <<calls, branches, tokenizer, ctor, builder, bridge, cache,
              evalrun>>

\* none of those programs is running, except the named one
ToolsIdleExcept(name) ==
    /\ name = "calls" \/ calls = <<>>
    /\ name = "branches" \/ branches = <<>>
    /\ name = "tokenizer" \/ tokenizer = <<>>
    /\ name = "ctor" \/ ctor = <<>>
    /\ name = "builder" \/ builder = <<>>
    /\ name = "bridge" \/ bridge = <<>>
    /\ name = "cache" \/ cache = <<>>
    /\ name = "evalrun" \/ evalrun = <<>>

\* none of those programs is running
ToolsIdle == ToolsIdleExcept("")

\* the variables of one call of retrieve
pipelineVars == <<pc, k_arg, final_k, dense, sparse, fused_scores, ranked_ids,
                  rel, sim, selected, candidate_idxs, selected_ids,
                  final_payload, result, prev_result>>

----------------------------------------------------------------------------
(* Bounds and input domains *)

Ids == {"A", "B", "C", "D"}

\* longest branch list a search returns (cfg.candidate_pool of the model)
MaxLen == 3

RrfKs == {0, 60}

Min(a, b) == IF a <= b THEN a ELSE b

RECURSIVE Gcd(_, _)
Gcd(a, b) == IF b = 0 THEN a ELSE Gcd(b, a % b)

Lcm(a, b) == (a * b) \div Gcd(a, b)

RECURSIVE LcmRange(_, _)
LcmRange(lo, hi) == IF lo > hi THEN 1 ELSE Lcm(lo, LcmRange(lo + 1, hi))

\* common denominator of all 1/(k + rank), rank in 1..MaxLen
FusedDen(k) == LcmRange(k + 1, k + MaxLen)

\* sequences over S of length <= n without repeated elements
NoDupSeqs(S, n) ==
    UNION {{s \in [1..m -> S] : \A i, j \in 1..m : i # j => s[i] # s[j]}
           : m \in 0..n}

\* all orders in which a set of ids may be iterated
Orders(S) == {s \in [1..Cardinality(S) -> S] :
                 \A i, j \in 1..Cardinality(S) : i # j => s[i] # s[j]}

----------------------------------------------------------------------------
(* Python containers *)

\* iteration order of a set of str: decided by the interpreter's hash seed
SetIter(S, seed) == SelectSeq(seed, LAMBDA x : x \in S)

\* dict.get(key, default) on a dict modelled as a function
Get(d, key, default) == IF key \in DOMAIN d THEN d[key] ELSE default

\* dict.get(key, default) on an insertion-ordered dict of [id, score] items
ItemsGet(items, key, default) ==
    IF \E i \in 1..Len(items) : items[i].id = key
    THEN items[CHOOSE i \in 1..Len(items) : items[i].id = key].score
    ELSE default

\* d[key] = value
Put(d, key, value) ==
    [x \in DOMAIN d \cup {key} |-> IF x = key THEN value ELSE d[x]]

EmptyDict == [x \in {} |-> 0]

\* no call has returned yet
NoResult == [returned |-> FALSE]

----------------------------------------------------------------------------
(* Fusion (RRF) *)

\* for i, (doc_id, _) in enumerate(results, start=1):
\*     rank[doc_id] = min(i, rank.get(doc_id, i))
RECURSIVE RankDict(_, _, _)
RankDict(results, i, rank) ==
    IF i > Len(results) THEN rank
    ELSE RankDict(results, i + 1,
                  Put(rank, results[i], Min(i, Get(rank, results[i], i))))

\* 1.0 / (k + rank), as a numerator over FusedDen(k)
RrfTermNextRank(rank, k) == FusedDen(k) \div (k + rank + 1)

RrfTerm(rank, k) == FusedDen(k) \div (k + rank)

\* _rrf: rank positions -> RRF scores of one list
_rrf(scores_by_id, k) ==
    [doc_id \in DOMAIN scores_by_id |-> RrfTerm(scores_by_id[doc_id], k)]

\* _rrf_fuse: the fused dict, its items in the order the keys were inserted
_rrf_fuse_dense_keys(dense_results, sparse_results, k, seed) ==
    LET dense_rank  == RankDict(dense_results, 1, EmptyDict)
        sparse_rank == RankDict(sparse_results, 1, EmptyDict)
        dense_rrf   == _rrf(dense_rank, k)
        sparse_rrf  == _rrf(sparse_rank, k)
        all_ids     == SetIter(DOMAIN dense_rank, seed)
    IN  [i \in 1..Len(all_ids) |->
            [id    |-> all_ids[i],
             score |-> Get(dense_rrf, all_ids[i], 0)
                       + Get(sparse_rrf, all_ids[i], 0)]]

_rrf_fuse(dense_results, sparse_results, k, seed) ==
    LET dense_rank  == RankDict(dense_results, 1, EmptyDict)
        sparse_rank == RankDict(sparse_results, 1, EmptyDict)
        dense_rrf   == _rrf(dense_rank, k)
        sparse_rrf  == _rrf(sparse_rank, k)
        all_ids     == SetIter(DOMAIN dense_rank \cup DOMAIN sparse_rank, seed)
    IN  [i \in 1..Len(all_ids) |->
            [id    |-> all_ids[i],
             score |-> Get(dense_rrf, all_ids[i], 0)
                       + Get(sparse_rrf, all_ids[i], 0)]]

\* sorted(items, key=score, reverse=True): stable, equal keys keep their order
RECURSIVE InsertDesc(_, _)
InsertDesc(sorted, item) ==
    IF sorted = <<>> THEN <<item>>
    ELSE IF Head(sorted).score >= item.score
         THEN <<Head(sorted)>> \o InsertDesc(Tail(sorted), item)
         ELSE <<item>> \o sorted

RECURSIVE InsertAsc(_, _)
InsertAsc(sorted, item) ==
    IF sorted = <<>> THEN <<item>>
    ELSE IF Head(sorted).score <= item.score
         THEN <<Head(sorted)>> \o InsertAsc(Tail(sorted), item)
         ELSE <<item>> \o sorted

RECURSIVE SortedAsc(_)
SortedAsc(items) ==
    IF items = <<>> THEN <<>>
    ELSE InsertAsc(SortedAsc(SubSeq(items, 1, Len(items) - 1)),
                   items[Len(items)])

RECURSIVE SortedDesc(_)
SortedDesc(items) ==
    IF items = <<>> THEN <<>>
    ELSE InsertDesc(SortedDesc(SubSeq(items, 1, Len(items) - 1)),
                    items[Len(items)])

\* ranked_ids = [doc_id for doc_id, _ in sorted(fused_scores.items(), ...)]
RankedIds(fused) ==
    LET s == SortedDesc(fused) IN [i \in 1..Len(s) |-> s[i].id]

----------------------------------------------------------------------------
(* Diversity (MMR) *)

\* stored embeddings: three vectors of Euclidean norm 20 with
\* cos(VA,VB) = 0.95, cos(VA,VC) = 0.1, cos(VB,VC) = 0.395
VA == <<20, 0, 0, 0, 0>>
VB == <<19, 5, 3, 2, 1>>
VC == <<2, 18, 6, 6, 0>>

Vectors == {VA, VB, VC}

\* a row that carries no vector (embedding None)
NoVector == <<>>

RECURSIVE Dot(_, _)
Dot(u, v) == IF u = <<>> THEN 0 ELSE Head(u) * Head(v) + Dot(Tail(u), Tail(v))

\* integer square root by Newton's iteration from x >= sqrt(s)
RECURSIVE ISqrtFrom(_, _)
ISqrtFrom(s, x) ==
    LET y == (x + s \div x) \div 2
    IN  IF y >= x THEN x ELSE ISqrtFrom(s, y)

\* np.linalg.norm of one row (the stored vectors have integer norms)
Norm(v) == LET s == Dot(v, v) IN IF s = 0 THEN 0 ELSE ISqrtFrom(s, s)

\* common denominator of the cosine similarities
SimDen == Norm(VA) * Norm(VA)

\* one entry of V @ V.T as a numerator over SimDen; with norms + 1e-12 a
\* zero row stays zero, every other row becomes a unit vector
CosSim(u, v) ==
    LET nu == Norm(u)
        nv == Norm(v)
    IN  IF nu = 0 \/ nv = 0 THEN 0
        ELSE (Dot(u, v) * SimDen) \div (nu * nv)

\* _cosine_sim_matrix(E)
_cosine_sim_matrix(E) ==
    [i \in 1..Len(E) |-> [j \in 1..Len(E) |-> CosSim(E[i], E[j])]]

RECURSIVE SeqMin(_)
SeqMin(s) == IF Len(s) = 1 THEN s[1] ELSE Min(s[1], SeqMin(Tail(s)))

RECURSIVE SeqMax(_)
SeqMax(s) == IF Len(s) = 1 THEN s[1] ELSE -Min(-s[1], -SeqMax(Tail(s)))

\* The relevance vector after min-max normalisation: numerators over one
\* denominator.  r_max > r_min: (rel - r_min) / (r_max - r_min); else zeros.
NormalizeRelUnguarded(ids, rel_scores) ==
    LET raw   == [i \in 1..Len(ids) |-> ItemsGet(rel_scores, ids[i], 0)]
        r_min == SeqMin(raw)
        r_max == SeqMax(raw)
    IN  [num |-> [i \in 1..Len(ids) |-> raw[i] - r_min],
         den |-> r_max - r_min]

NormalizeRel(ids, rel_scores) ==
    LET raw   == [i \in 1..Len(ids) |-> ItemsGet(rel_scores, ids[i], 0)]
        r_min == SeqMin(raw)
        r_max == SeqMax(raw)
    IN  IF r_max > r_min
        THEN [num |-> [i \in 1..Len(ids) |-> raw[i] - r_min],
              den |-> r_max - r_min]
        ELSE [num |-> [i \in 1..Len(ids) |-> 0], den |-> 1]

\* ids[start : start + n] of a 1-based sequence (start is the 0-based offset)
PySliceOneMore(ids, start, n) ==
    SubSeq(ids, start + 1, Min(start + n + 1, Len(ids)))

PySlice(ids, start, n) == SubSeq(ids, start + 1, Min(start + n, Len(ids)))

\* ids[:k]; a negative k counts from the end
PyPrefix(ids, k) ==
    IF k >= 0 THEN SubSeq(ids, 1, Min(k, Len(ids)))
    ELSE SubSeq(ids, 1, Len(ids) + k)

\* for start in range(0, len(ids), batch): batch_ids = ids[start : start +
\* batch]; collection.get(ids=batch_ids, ...): the requests one loop sends
RECURSIVE Requests(_, _, _)
Requests(ids, start, batch) ==
    IF start >= Len(ids) THEN <<>>
    ELSE <<PySlice(ids, start, batch)>> \o Requests(ids, start + batch, batch)

KeyError == [raised |-> "KeyError"]
ValueError == [raised |-> "ValueError"]

\* The embedding fetch loop: one collection.get per batch of max_get_batch
\* ids; a get returns the rows that exist; id_to_emb[i] raises KeyError for
\* an id without a row.
RECURSIVE FetchEmbeddings(_, _, _, _, _)
FetchEmbeddings(ids, start, batch, coll, embeddings) ==
    IF start >= Len(ids) THEN [raised |-> "", embeddings |-> embeddings]
    ELSE LET batch_ids == PySlice(ids, start, batch)
         IN  IF \E i \in 1..Len(batch_ids) : batch_ids[i] \notin DOMAIN coll
             THEN KeyError
             ELSE FetchEmbeddings(ids, start + batch, batch, coll,
                      embeddings \o [i \in 1..Len(batch_ids) |->
                                        coll[batch_ids[i]]])

\* E = np.array(embeddings, dtype=float): rows that are all vectors give a
\* 2-D array, rows that are all None a 1-D array of nan, a mix raises
ArrayShape(embeddings) ==
    IF \A i \in 1..Len(embeddings) : embeddings[i] # NoVector THEN "2d"
    ELSE IF \A i \in 1..Len(embeddings) : embeddings[i] = NoVector THEN "1d"
    ELSE "ValueError"

\* int(np.argmax(rel)): the first index holding the maximum (1-based here)
ArgMaxLast(r) == CHOOSE i \in 1..Len(r) :
                    /\ \A j \in 1..Len(r) : r[j] <= r[i]
                    /\ \A j \in (i + 1)..Len(r) : r[j] < r[i]

ArgMax(r) == CHOOSE i \in 1..Len(r) :
                /\ \A j \in 1..Len(r) : r[j] <= r[i]
                /\ \A j \in 1..(i - 1) : r[j] < r[i]

\* candidate_idxs.remove(x)
Remove(s, x) == SelectSeq(s, LAMBDA y : y # x)

\* float(np.max(sim[idx, selected]))
RECURSIVE PenaltyMin(_, _, _)
PenaltyMin(simm, idx, sel) ==
    IF Len(sel) = 1 THEN simm[idx][sel[1]]
    ELSE Min(simm[idx][sel[1]], PenaltyMin(simm, idx, Tail(sel)))

RECURSIVE Penalty(_, _, _)
Penalty(simm, idx, sel) ==
    IF Len(sel) = 1 THEN simm[idx][sel[1]]
    ELSE -Min(-simm[idx][sel[1]], -Penalty(simm, idx, Tail(sel)))

\* lambda_mult * rel[idx] - (1.0 - lambda_mult) * penalty, as a numerator
\* over lambda.den * relDen * SimDen (the same for every candidate of a call)
MmrValFlipped(lambda_mult, relNum, relDen, penalty) ==
    lambda_mult.num * relNum * SimDen
        + (lambda_mult.den - lambda_mult.num) * penalty * relDen

MmrVal(lambda_mult, relNum, relDen, penalty) ==
    lambda_mult.num * relNum * SimDen
        - (lambda_mult.den - lambda_mult.num) * penalty * relDen

\* "if mmr_val > best_val".  best_val starts at -1e9, which is below every
\* mmr_val (relevances lie in [0,1], cosines in [-1,1]), so the first
\* candidate (best_idx still None, written 0) always replaces it.
BetterOrEqual(mmr_val, best_idx, best_val) == best_idx = 0 \/ mmr_val >= best_val

Better(mmr_val, best_idx, best_val) == best_idx = 0 \/ mmr_val > best_val

\* the inner for loop over candidate_idxs: returns best_idx
RECURSIVE BestIdx(_, _, _, _, _, _, _)
BestIdx(cands, lambda_mult, r, simm, sel, best_idx, best_val) ==
    IF cands = <<>> THEN best_idx
    ELSE LET idx     == Head(cands)
             penalty == IF sel # <<>> THEN Penalty(simm, idx, sel) ELSE 0
             mmr_val == MmrVal(lambda_mult, r.num[idx], r.den, penalty)
         IN  IF Better(mmr_val, best_idx, best_val)
             THEN BestIdx(Tail(cands), lambda_mult, r, simm, sel, idx, mmr_val)
             ELSE BestIdx(Tail(cands), lambda_mult, r, simm, sel,
                          best_idx, best_val)

\* while len(selected) < min(k, len(ranked_ids)) and candidate_idxs
WhileCondOffByOne(sel, cands, k, n) == Len(sel) <= Min(k, n) /\ cands # <<>>

WhileCond(sel, cands, k, n) == Len(sel) < Min(k, n) /\ cands # <<>>

\* return [ranked_ids[i] for i in selected]
PickedIds(ids, sel) == [j \in 1..Len(sel) |-> ids[sel[j]]]

\* the while loop as a whole: the indices selected when it ends
RECURSIVE MmrLoop(_, _, _, _, _, _, _)
MmrLoop(sel, cands, k, n, lambda_mult, r, simm) ==
    IF WhileCond(sel, cands, k, n)
    THEN LET best_idx == BestIdx(cands, lambda_mult, r, simm, sel, 0, 0)
         IN  MmrLoop(Append(sel, best_idx), Remove(cands, best_idx), k, n,
                     lambda_mult, r, simm)
    ELSE sel

\* what _mmr_select returns past the fallback test, for the 2-D array E of
\* the pool's embeddings
MmrSelection(ids, r, k, lambda_mult, E) ==
    LET first == ArgMax(r.num)
    IN  PickedIds(ids,
                  MmrLoop(<<first>>, Remove([i \in 1..Len(ids) |-> i], first),
                          k, Len(ids), lambda_mult, r, _cosine_sim_matrix(E)))

MmrUnchanged == UNCHANGED <<toolVars, envVars, outVars, k_arg, final_k, dense, sparse,
                            fused_scores, ranked_ids, final_payload>>

\* _mmr_select up to and including the first pick
MmrStart ==
    /\ pc = "mmr"
    /\ MmrUnchanged
    /\ IF ranked_ids = <<>>
       THEN /\ selected_ids' = <<>>
            /\ pc' = "hydrate"
            /\ UNCHANGED <<rel, sim, selected, candidate_idxs>>
       ELSE LET r   == NormalizeRel(ranked_ids, fused_scores)
                got == FetchEmbeddings(ranked_ids, 0, cfg.max_get_batch,
                                       collection, <<>>)
            IN  IF got.raised # ""
                THEN /\ pc' = got.raised
                     /\ rel' = r
                     /\ UNCHANGED <<sim, selected, candidate_idxs, selected_ids>>
                ELSE IF ArrayShape(got.embeddings) = "ValueError"
                THEN /\ pc' = "ValueError"
                     /\ rel' = r
                     /\ UNCHANGED <<sim, selected, candidate_idxs, selected_ids>>
                ELSE IF ArrayShape(got.embeddings) = "1d"
                THEN /\ selected_ids' = PyPrefix(ranked_ids, final_k)
                     /\ pc' = "hydrate"
                     /\ rel' = r
                     /\ UNCHANGED <<sim, selected, candidate_idxs>>
                ELSE LET first == ArgMax(r.num)
                     IN  /\ rel' = r
                         /\ sim' = _cosine_sim_matrix(got.embeddings)
                         /\ selected' = <<first>>
                         /\ candidate_idxs' =
                                Remove([i \in 1..Len(ranked_ids) |-> i], first)
                         /\ pc' = "mmr_loop"
                         /\ UNCHANGED selected_ids

\* one iteration of the while loop
MmrStep ==
    /\ pc = "mmr_loop"
    /\ WhileCond(selected, candidate_idxs, final_k, Len(ranked_ids))
    /\ LET best_idx == BestIdx(candidate_idxs, cfg.mmr_lambda, rel, sim,
                               selected, 0, 0)
       IN  /\ selected' = Append(selected, best_idx)
           /\ candidate_idxs' = Remove(candidate_idxs, best_idx)
    /\ UNCHANGED <<pc, rel, sim, selected_ids>>
    /\ MmrUnchanged

\* the loop ends and _mmr_select returns
MmrReturn ==
    /\ pc = "mmr_loop"
    /\ ~WhileCond(selected, candidate_idxs, final_k, Len(ranked_ids))
    /\ selected_ids' = PickedIds(ranked_ids, selected)
    /\ pc' = "hydrate"
    /\ UNCHANGED <<rel, sim, selected, candidate_idxs>>
    /\ MmrUnchanged

----------------------------------------------------------------------------
(* retrieve(), steps 3 and 4a *)

RrfFuse ==
    /\ pc = "fuse"
    /\ fused_scores' = _rrf_fuse(dense, sparse, cfg.rrf_k, hashSeed)
    /\ pc' = "rank"
    /\ UNCHANGED <<toolVars, envVars, mmrVars, outVars, k_arg, final_k, dense, sparse,
                   ranked_ids, selected_ids, final_payload>>

Rank ==
    /\ pc = "rank"
    /\ ranked_ids' = RankedIds(fused_scores)
    /\ pc' = "mmr"
    /\ UNCHANGED <<toolVars, envVars, mmrVars, outVars, k_arg, final_k, dense, sparse,
                   fused_scores, selected_ids, final_payload>>

\* RetrieverConfig with rrf_k = k and the other fields at their defaults
\* (max_get_batch scaled down to the size of the model's pools)
DefaultCfg(k) ==
    [rrf_k |-> k, candidate_pool |-> MaxLen,
     mmr_lambda |-> [num |-> 7, den |-> 10], final_k |-> 2,
     max_get_batch |-> 2]

\* _rrf_fuse and the ranking applied to every pair of branch lists
InitFuse ==
    /\ cfg \in {DefaultCfg(k) : k \in RrfKs}
    /\ hashSeed \in Orders(Ids)
    /\ collection = EmptyDict
    /\ pc = "fuse"
    /\ k_arg = <<>>
    /\ final_k = cfg.final_k
    /\ dense \in NoDupSeqs(Ids, MaxLen)
    /\ sparse \in NoDupSeqs(Ids, MaxLen)
    /\ index = [dense |-> dense, sparse |-> sparse,
                dense_raises |-> FALSE, sparse_raises |-> FALSE,
                get_order |-> <<>>]
    /\ fused_scores = <<>>
    /\ ranked_ids = <<>>
    /\ rel = <<>>
    /\ sim = <<>>
    /\ selected = <<>>
    /\ candidate_idxs = <<>>
    /\ selected_ids = <<>>
    /\ final_payload = <<>>
    /\ result = NoResult
    /\ prev_result = NoResult
    /\ ToolsIdle

NextFuse == RrfFuse \/ Rank

SpecFuse == InitFuse /\ [][NextFuse]_vars

----------------------------------------------------------------------------
(* _mmr_select applied to every bounded candidate pool *)

\* largest candidate pool handed to _mmr_select
MaxPool == 4

\* largest k handed to _mmr_select
MaxK == 3

\* the pool's ids, best first
PoolOrder == <<"A", "C", "B", "D", "E">>

\* fused scores of a pool, in hundredths
PoolScores == {80, 85, 90}

Lambdas == {[num |-> 0, den |-> 1], [num |-> 1, den |-> 2],
            [num |-> 7, den |-> 10], [num |-> 1, den |-> 1]}

KArgs == (-1)..MaxK

\* score lists a descending sort can produce: non-increasing
DescScores(n) == {sc \in [1..n -> PoolScores] :
                     \A i \in 1..(n - 1) : sc[i] >= sc[i + 1]}

\* Collections over the ids S: every row present with any stored vector,
\* or some rows without a vector, or some rows absent.  What a defective
\* collection does to the fetch depends only on which rows are defective,
\* so its sound rows all hold VA; an absent row raises whatever the other
\* rows hold.
Collections(S) ==
    [S -> Vectors] \cup [S -> {VA, NoVector}]
        \cup UNION {[R -> {VA}] : R \in SUBSET S}

InitMMR ==
    /\ \E n \in 0..Min(MaxPool, Len(PoolOrder)) :
          /\ ranked_ids = SubSeq(PoolOrder, 1, n)
          /\ \E sc \in DescScores(n) :
                fused_scores = [i \in 1..n |-> [id |-> PoolOrder[i],
                                                score |-> sc[i]]]
          /\ collection \in Collections({PoolOrder[i] : i \in 1..n})
    /\ \E lam \in Lambdas :
          cfg = [DefaultCfg(60) EXCEPT !.mmr_lambda = lam]
    /\ final_k \in KArgs
    /\ k_arg = <<final_k>>
    /\ hashSeed = PoolOrder
    /\ index = [dense |-> <<>>, sparse |-> <<>>,
                dense_raises |-> FALSE, sparse_raises |-> FALSE,
                get_order |-> PoolOrder]
    /\ pc = "mmr"
    /\ dense = <<>>
    /\ sparse = <<>>
    /\ rel = <<>>
    /\ sim = <<>>
    /\ selected = <<>>
    /\ candidate_idxs = <<>>
    /\ selected_ids = <<>>
    /\ final_payload = <<>>
    /\ result = NoResult
    /\ prev_result = NoResult
    /\ ToolsIdle

NextMMR == MmrStart \/ MmrStep \/ MmrReturn

SpecMMR == InitMMR /\ [][NextMMR]_vars

----------------------------------------------------------------------------
(* retrieve() as a whole, called repeatedly, in one process or in several *)

\* "k or self.cfg.final_k": None and 0 are falsy
Truthy(k) == k # <<>> /\ k[1] # 0

\* self._collection.get(ids=batch_ids, ...)["ids"]: the requested ids that
\* have a row, in the order the collection yields its rows
CollectionGet(coll, order, batch_ids) ==
    SelectSeq(order, LAMBDA id :
        /\ id \in DOMAIN coll
        /\ \E i \in 1..Len(batch_ids) : batch_ids[i] = id)

\* {i: d for i, d in zip(keys, values)}
ZipDict(keys, values) ==
    [key \in {keys[j] : j \in 1..Min(Len(keys), Len(values))} |->
        values[CHOOSE j \in 1..Min(Len(keys), Len(values)) :
                  /\ keys[j] = key
                  /\ \A h \in (j + 1)..Min(Len(keys), Len(values)) :
                        keys[h] # key]]

\* the stored document of a row (every row its own text, never empty)
DocumentOf(id) == id

\* _get_documents_by_ids: one collection.get per batch of max_get_batch
\* ids, then a record for every requested id in the order of ids,
\* doc_map.get(i, "") standing in when the row is missing
RECURSIVE _get_documents_by_ids(_, _, _, _, _, _)
_get_documents_by_ids(ids, start, batch, coll, order, out) ==
    IF start >= Len(ids) THEN out
    ELSE LET batch_ids == PySlice(ids, start, batch)
             got_ids   == CollectionGet(coll, order, batch_ids)
             doc_map   == ZipDict(got_ids, [j \in 1..Len(got_ids) |->
                                               DocumentOf(got_ids[j])])
         IN  _get_documents_by_ids(ids, start + batch, batch, coll, order,
                 out \o [i \in 1..Len(batch_ids) |->
                            [id       |-> batch_ids[i],
                             document |-> Get(doc_map, batch_ids[i], "")]])

\* item["score"] = float(score_map.get(item["id"], 0.0))
AttachScores(payload, score_map) ==
    [i \in 1..Len(payload) |->
        [id       |-> payload[i].id,
         document |-> payload[i].document,
         score    |-> ItemsGet(score_map, payload[i].id, 0)]]

\* id_to_pos.get(d["id"], 10**9): the last position of the id in ids
IdToPos(ids, id) ==
    IF \E i \in 1..Len(ids) : ids[i] = id
    THEN (CHOOSE i \in 1..Len(ids) :
             ids[i] = id /\ \A j \in (i + 1)..Len(ids) : ids[j] # id) - 1
    ELSE 10^9

\* final_payload.sort(key=position in selected_ids): stable, ascending
RECURSIVE InsertByPosDesc(_, _, _)
InsertByPosDesc(sorted, item, ids) ==
    IF sorted = <<>> THEN <<item>>
    ELSE IF IdToPos(ids, Head(sorted).id) >= IdToPos(ids, item.id)
         THEN <<Head(sorted)>> \o InsertByPosDesc(Tail(sorted), item, ids)
         ELSE <<item>> \o sorted

RECURSIVE InsertByPos(_, _, _)
InsertByPos(sorted, item, ids) ==
    IF sorted = <<>> THEN <<item>>
    ELSE IF IdToPos(ids, Head(sorted).id) <= IdToPos(ids, item.id)
         THEN <<Head(sorted)>> \o InsertByPos(Tail(sorted), item, ids)
         ELSE <<item>> \o sorted

RECURSIVE SortByPos(_, _)
SortByPos(payload, ids) ==
    IF payload = <<>> THEN <<>>
    ELSE InsertByPos(SortByPos(SubSeq(payload, 1, Len(payload) - 1), ids),
                     payload[Len(payload)], ids)

callLocals == <<dense, sparse, fused_scores, ranked_ids, rel, sim, selected,
                candidate_idxs, selected_ids, final_payload>>

\* retrieve is entered: final_k = k or self.cfg.final_k
Retrieve ==
    /\ pc = "idle"
    /\ final_k' = IF Truthy(k_arg) THEN k_arg[1] ELSE cfg.final_k
    /\ pc' = "dense"
    /\ UNCHANGED <<toolVars, envVars, outVars, k_arg, callLocals>>

\* retrieve calls a branch search with no try/except around it: the call
\* returns the top top_k ids of the index, or the exception the index raised
\* leaves retrieve
CallBranchSwallowed(raises, ranking, top_k) ==
    [raised |-> FALSE,
     results |-> IF raises THEN <<>> ELSE PyPrefix(ranking, top_k)]

CallBranch(raises, ranking, top_k) ==
    IF raises THEN [raised |-> TRUE]
    ELSE [raised |-> FALSE, results |-> PyPrefix(ranking, top_k)]

\* dense = self._dense_search(...), skipping the sparse search
DenseSearchThenFuse ==
    /\ pc = "dense"
    /\ LET got == CallBranch(index.dense_raises, index.dense,
                             cfg.candidate_pool)
       IN  IF got.raised
           THEN pc' = "DenseError" /\ UNCHANGED dense
           ELSE dense' = got.results /\ pc' = "fuse"
    /\ UNCHANGED <<toolVars, envVars, mmrVars, outVars, k_arg, final_k, sparse,
                   fused_scores, ranked_ids, selected_ids, final_payload>>

\* dense = self._dense_search(...): the top candidate_pool ids of the dense
\* index; an exception of collection.query ends the call
DenseSearch ==
    /\ pc = "dense"
    /\ LET got == CallBranch(index.dense_raises, index.dense,
                             cfg.candidate_pool)
       IN  IF got.raised
           THEN pc' = "DenseError" /\ UNCHANGED dense
           ELSE dense' = got.results /\ pc' = "sparse"
    /\ UNCHANGED <<toolVars, envVars, mmrVars, outVars, k_arg, final_k, sparse,
                   fused_scores, ranked_ids, selected_ids, final_payload>>

\* sparse = self._sparse_search(...): the top candidate_pool ids of the BM25
\* index; an exception of bm25.retrieve ends the call
SparseSearch ==
    /\ pc = "sparse"
    /\ LET got == CallBranch(index.sparse_raises, index.sparse,
                             cfg.candidate_pool)
       IN  IF got.raised
           THEN pc' = "SparseError" /\ UNCHANGED sparse
           ELSE sparse' = got.results /\ pc' = "fuse"
    /\ UNCHANGED <<toolVars, envVars, mmrVars, outVars, k_arg, final_k, dense,
                   fused_scores, ranked_ids, selected_ids, final_payload>>

\* step 5 of retrieve: fetch the payload, attach the scores, restore the order
GetDocuments ==
    /\ pc = "hydrate"
    /\ final_payload' =
           SortByPos(AttachScores(_get_documents_by_ids(selected_ids, 0,
                                      cfg.max_get_batch, collection,
                                      index.get_order, <<>>),
                                  fused_scores),
                     selected_ids)
    /\ pc' = "done"
    /\ UNCHANGED <<toolVars, envVars, mmrVars, outVars, k_arg, final_k, dense, sparse,
                   fused_scores, ranked_ids, selected_ids>>

\* return final_payload: the caller has the result, the locals are gone
Return ==
    /\ pc = "done"
    /\ result' = [returned |-> TRUE, payload |-> final_payload]
    /\ prev_result' = result
    /\ pc' = "idle"
    /\ dense' = <<>> /\ sparse' = <<>> /\ fused_scores' = <<>>
    /\ ranked_ids' = <<>> /\ rel' = <<>> /\ sim' = <<>> /\ selected' = <<>>
    /\ candidate_idxs' = <<>> /\ selected_ids' = <<>> /\ final_payload' = <<>>
    /\ UNCHANGED <<toolVars, envVars, k_arg, final_k>>

RetrieveIds == {"A", "B", "C"}

\* The program is started again (the command line tool runs once per
\* invocation): same configuration, same indexes, a fresh string-hash seed.
NewProcess ==
    /\ pc = "idle"
    /\ hashSeed' \in Orders(RetrieveIds) \ {hashSeed}
    /\ UNCHANGED <<toolVars, cfg, collection, index, pc, k_arg, final_k, callLocals,
                   outVars>>

\* mmr_lambda of the retriever: 0.5, the default 0.7, and 1.5 (the
\* constructor takes any float)
RetrieveLambdas == {[num |-> 1, den |-> 2], [num |-> 7, den |-> 10],
                    [num |-> 3, den |-> 2]}

\* the argument k of retrieve: None or any int
RetrieveKArgs == {<<>>, <<-1>>, <<0>>, <<1>>, <<2>>}

InitRetrieve ==
    /\ \E lam \in RetrieveLambdas :
          cfg = [DefaultCfg(60) EXCEPT !.mmr_lambda = lam, !.candidate_pool = 2]
    /\ hashSeed \in Orders(RetrieveIds)
    /\ collection = [id \in RetrieveIds |->
                        CASE id = "A" -> VA [] id = "B" -> VB [] OTHER -> VC]
    /\ \E d, s \in NoDupSeqs(RetrieveIds, Cardinality(RetrieveIds)) :
          \E dr, sr \in BOOLEAN :
              index = [dense |-> d, sparse |-> s,
                       dense_raises |-> dr, sparse_raises |-> sr,
                       get_order |-> <<"C", "A", "B">>]
    /\ pc = "idle"
    /\ k_arg \in RetrieveKArgs
    /\ final_k = cfg.final_k
    /\ dense = <<>>
    /\ sparse = <<>>
    /\ fused_scores = <<>>
    /\ ranked_ids = <<>>
    /\ rel = <<>>
    /\ sim = <<>>
    /\ selected = <<>>
    /\ candidate_idxs = <<>>
    /\ selected_ids = <<>>
    /\ final_payload = <<>>
    /\ result = NoResult
    /\ prev_result = NoResult
    /\ ToolsIdle

NextRetrieve ==
    \/ Retrieve
    \/ DenseSearch
    \/ SparseSearch
    \/ RrfFuse
    \/ Rank
    \/ MmrStart
    \/ MmrStep
    \/ MmrReturn
    \/ GetDocuments
    \/ Return
    \/ NewProcess

SpecRetrieve == InitRetrieve /\ [][NextRetrieve]_vars

----------------------------------------------------------------------------
(* Selection and payload fetch over every batch size and row order, with *)
(* the collection rebuilt by another process in between                   *)

\* largest pool and largest max_get_batch of this specification
MaxHydrate == 3

HydrateLambdas == {[num |-> 7, den |-> 10]}

\* fused scores of a pool of n, in hundredths: all equal, or falling
HydrateScores(n) ==
    {[i \in 1..n |-> 80],
     [i \in 1..n |-> IF i = 1 THEN 90 ELSE IF i = 2 THEN 85 ELSE 80]}

\* orders in which the collection may hold the rows of a pool: the pool's
\* order rotated
RowOrders(ids) ==
    IF ids = <<>> THEN {<<>>}
    ELSE {[i \in 1..Len(ids) |-> ids[((i + r - 1) % Len(ids)) + 1]] :
             r \in 0..(Len(ids) - 1)}

\* embed_chroma_v4.py --reset run by another process: the collection is
\* dropped and its rows are added again in order, batch by batch, so a
\* reader finds only the first rows.  Taken between the return of
\* _mmr_select and the payload fetch; a rebuild before the embedding fetch
\* is an initial collection with absent rows, one after the payload fetch
\* changes nothing.
IndexRebuild ==
    /\ pc = "hydrate"
    /\ \E added \in 0..(Len(index.get_order) - 1) :
          LET R == {index.get_order[i] : i \in 1..added} \cap DOMAIN collection
          IN  /\ R # DOMAIN collection
              /\ collection' = [id \in R |-> collection[id]]
    /\ UNCHANGED <<toolVars, cfg, hashSeed, index, pc, k_arg, final_k, callLocals,
                   outVars>>

InitHydrate ==
    /\ \E n \in 0..MaxHydrate :
          /\ ranked_ids = SubSeq(PoolOrder, 1, n)
          /\ \E sc \in HydrateScores(n) :
                fused_scores = [i \in 1..n |-> [id |-> PoolOrder[i],
                                                score |-> sc[i]]]
          /\ collection \in Collections({PoolOrder[i] : i \in 1..n})
          /\ \E o \in RowOrders(SubSeq(PoolOrder, 1, n)) :
                index = [dense |-> <<>>, sparse |-> <<>>,
                         dense_raises |-> FALSE, sparse_raises |-> FALSE,
                         get_order |-> o]
    /\ \E lam \in HydrateLambdas : \E b \in 1..MaxHydrate :
          cfg = [DefaultCfg(60) EXCEPT !.mmr_lambda = lam, !.max_get_batch = b]
    /\ final_k \in 1..MaxHydrate
    /\ k_arg = <<final_k>>
    /\ hashSeed = PoolOrder
    /\ pc = "mmr"
    /\ dense = <<>>
    /\ sparse = <<>>
    /\ rel = <<>>
    /\ sim = <<>>
    /\ selected = <<>>
    /\ candidate_idxs = <<>>
    /\ selected_ids = <<>>
    /\ final_payload = <<>>
    /\ result = NoResult
    /\ prev_result = NoResult
    /\ ToolsIdle

NextHydrate ==
    \/ MmrStart
    \/ MmrStep
    \/ MmrReturn
    \/ IndexRebuild
    \/ GetDocuments
    \/ Return

SpecHydrate == InitHydrate /\ [][NextHydrate]_vars

----------------------------------------------------------------------------
(* Concurrent calls of retrieve() on one retriever *)

\* _mmr_select as a whole: the ids it returns, or the exception it raises
_mmr_select(ids, rel_scores, k, lambda_mult, coll, batch) ==
    IF ids = <<>> THEN [raised |-> "", ids |-> <<>>]
    ELSE LET r   == NormalizeRel(ids, rel_scores)
             got == FetchEmbeddings(ids, 0, batch, coll, <<>>)
         IN  IF got.raised # "" THEN [raised |-> got.raised]
             ELSE IF ArrayShape(got.embeddings) = "ValueError"
             THEN [raised |-> "ValueError"]
             ELSE IF ArrayShape(got.embeddings) = "1d"
             THEN [raised |-> "", ids |-> PyPrefix(ids, k)]
             ELSE [raised |-> "",
                   ids |-> MmrSelection(ids, r, k, lambda_mult,
                                        got.embeddings)]

\* step 5 of retrieve: the payload for the selected ids
Payload(ids, score_map, batch, coll, order) ==
    SortByPos(AttachScores(_get_documents_by_ids(ids, 0, batch, coll, order,
                                                 <<>>),
                           score_map),
              ids)

\* retrieve(query, k) run on its own from start to end: what it returns,
\* or the exception that leaves it
RetrieveAlone(k) ==
    LET fk == IF Truthy(k) THEN k[1] ELSE cfg.final_k
        d  == CallBranch(index.dense_raises, index.dense, cfg.candidate_pool)
        s  == CallBranch(index.sparse_raises, index.sparse,
                         cfg.candidate_pool)
    IN  IF d.raised THEN [raised |-> "DenseError"]
        ELSE IF s.raised THEN [raised |-> "SparseError"]
        ELSE LET fused  == _rrf_fuse(d.results, s.results, cfg.rrf_k, hashSeed)
                 ranked == RankedIds(fused)
                 sel    == _mmr_select(ranked, fused, fk, cfg.mmr_lambda,
                                       collection, cfg.max_get_batch)
             IN  IF sel.raised # "" THEN [raised |-> sel.raised]
                 ELSE [raised |-> "",
                       payload |-> Payload(sel.ids, fused, cfg.max_get_batch,
                                           collection, index.get_order)]

\* no call of retrieve is being followed step by step
PipelineIdle ==
    /\ pc = "idle"
    /\ k_arg = <<>>
    /\ final_k = cfg.final_k
    /\ dense = <<>>
    /\ sparse = <<>>
    /\ fused_scores = <<>>
    /\ ranked_ids = <<>>
    /\ rel = <<>>
    /\ sim = <<>>
    /\ selected = <<>>
    /\ candidate_idxs = <<>>
    /\ selected_ids = <<>>
    /\ final_payload = <<>>
    /\ result = NoResult
    /\ prev_result = NoResult

Threads == {1, 2}

\* the frame of a call that has not started: its argument k, no locals yet
NewFrame(k) ==
    [pc |-> "idle", k |-> k, final_k |-> 0, dense |-> <<>>, sparse |-> <<>>,
     fused_scores |-> <<>>, ranked_ids |-> <<>>, selected_ids |-> <<>>,
     final_payload |-> <<>>, result |-> NoResult]

\* where a call reads its arguments and locals: in the frame of its own
\* invocation (retrieve keeps nothing of a call on self)
FrameShared(t) == calls[1]

Frame(t) == calls[t]

\* the thread's call moves on: its frame changes, nothing else does
Step(t, frame) ==
    /\ calls' = [calls EXCEPT ![t] = frame]
    /\ UNCHANGED <<envVars, pipelineVars, branches, tokenizer, ctor, builder,
                   bridge, cache, evalrun>>

\* final_k = k or self.cfg.final_k
TRetrieve(t) ==
    /\ Frame(t).pc = "idle"
    /\ Step(t, [calls[t] EXCEPT
                   !.pc = "dense",
                   !.final_k = IF Truthy(Frame(t).k) THEN Frame(t).k[1]
                               ELSE cfg.final_k])

\* dense = self._dense_search(...)
TDenseSearch(t) ==
    /\ Frame(t).pc = "dense"
    /\ LET got == CallBranch(index.dense_raises, index.dense,
                             cfg.candidate_pool)
       IN  IF got.raised
           THEN Step(t, [calls[t] EXCEPT !.pc = "DenseError"])
           ELSE Step(t, [calls[t] EXCEPT !.pc = "sparse",
                                         !.dense = got.results])

\* sparse = self._sparse_search(...)
TSparseSearch(t) ==
    /\ Frame(t).pc = "sparse"
    /\ LET got == CallBranch(index.sparse_raises, index.sparse,
                             cfg.candidate_pool)
       IN  IF got.raised
           THEN Step(t, [calls[t] EXCEPT !.pc = "SparseError"])
           ELSE Step(t, [calls[t] EXCEPT !.pc = "fuse",
                                         !.sparse = got.results])

\* fused_scores = self._rrf_fuse(...)
TRrfFuse(t) ==
    /\ Frame(t).pc = "fuse"
    /\ Step(t, [calls[t] EXCEPT
                   !.pc = "rank",
                   !.fused_scores = _rrf_fuse(Frame(t).dense, Frame(t).sparse,
                                              cfg.rrf_k, hashSeed)])

\* ranked_ids = [... sorted(fused_scores.items(), ..., reverse=True)]
TRank(t) ==
    /\ Frame(t).pc = "rank"
    /\ Step(t, [calls[t] EXCEPT
                   !.pc = "mmr",
                   !.ranked_ids = RankedIds(Frame(t).fused_scores)])

\* selected_ids = self._mmr_select(...)
TMmrSelect(t) ==
    /\ Frame(t).pc = "mmr"
    /\ LET sel == _mmr_select(Frame(t).ranked_ids, Frame(t).fused_scores,
                              Frame(t).final_k, cfg.mmr_lambda, collection,
                              cfg.max_get_batch)
       IN  IF sel.raised # ""
           THEN Step(t, [calls[t] EXCEPT !.pc = sel.raised])
           ELSE Step(t, [calls[t] EXCEPT !.pc = "hydrate",
                                         !.selected_ids = sel.ids])

\* step 5 of retrieve
TGetDocuments(t) ==
    /\ Frame(t).pc = "hydrate"
    /\ Step(t, [calls[t] EXCEPT
                   !.pc = "done",
                   !.final_payload = Payload(Frame(t).selected_ids,
                                             Frame(t).fused_scores,
                                             cfg.max_get_batch, collection,
                                             index.get_order)])

\* return final_payload
TReturn(t) ==
    /\ Frame(t).pc = "done"
    /\ Step(t, [calls[t] EXCEPT
                   !.pc = "returned",
                   !.result = [returned |-> TRUE,
                               payload |-> Frame(t).final_payload]])

\* the argument k of the concurrent calls
ConcurrentKArgs == {<<>>, <<1>>, <<3>>}

InitConcurrent ==
    /\ cfg = [DefaultCfg(60) EXCEPT !.candidate_pool = 2]
    /\ hashSeed = <<"A", "B", "C">>
    /\ collection = [id \in RetrieveIds |->
                        CASE id = "A" -> VA [] id = "B" -> VB [] OTHER -> VC]
    /\ \E d, s \in NoDupSeqs(RetrieveIds, 2) : \E sr \in BOOLEAN :
          index = [dense |-> d, sparse |-> s,
                   dense_raises |-> FALSE, sparse_raises |-> sr,
                   get_order |-> <<"C", "A", "B">>]
    /\ calls \in [Threads -> {NewFrame(k) : k \in ConcurrentKArgs}]
    /\ ToolsIdleExcept("calls")
    /\ PipelineIdle

NextConcurrent ==
    \/ \E t \in Threads : TRetrieve(t)
    \/ \E t \in Threads : TDenseSearch(t)
    \/ \E t \in Threads : TSparseSearch(t)
    \/ \E t \in Threads : TRrfFuse(t)
    \/ \E t \in Threads : TRank(t)
    \/ \E t \in Threads : TMmrSelect(t)
    \/ \E t \in Threads : TGetDocuments(t)
    \/ \E t \in Threads : TReturn(t)

SpecConcurrent == InitConcurrent /\ [][NextConcurrent]_vars

----------------------------------------------------------------------------
(* The branch searches on raw (id, score) results *)

\* longest raw result list an index returns here
MaxBranch == 2

\* raw scores: BM25 scores, vector distances
RawScores == 1..3

One == [num |-> 1, den |-> 1]

\* positive factors: 1, 3 and 1/2
ScaleFactors == {One, [num |-> 3, den |-> 1], [num |-> 1, den |-> 2]}

\* a raw score times a positive factor, rounded down to a representable
\* value (float(s): rounding keeps the order of two scores or makes them
\* equal)
ScaleScore(s, c) == (s * c.num) \div c.den

ScalePairs(pairs, c) ==
    [j \in 1..Len(pairs) |->
        [id |-> pairs[j].id, score |-> ScaleScore(pairs[j].score, c)]]

\* the (id, score) lists an index may return: no id twice, scores in the
\* order of the index (ascending distances when asc, else descending scores)
RawResults(asc) ==
    UNION {{[j \in 1..m |-> [id |-> ids[j], score |-> sc[j]]] :
               ids \in {i \in [1..m -> RetrieveIds] :
                           \A a, b \in 1..m : a # b => i[a] # i[b]},
               sc \in {x \in [1..m -> RawScores] :
                          \A a, b \in 1..m :
                             a < b => IF asc THEN x[a] <= x[b]
                                      ELSE x[a] >= x[b]}}
           : m \in 0..MaxBranch}

\* a sort by score that is not stable: equal scores come out in the reverse
\* of their order in the list
SortPairsUnstable(pairs) ==
    SortedDesc([j \in 1..Len(pairs) |-> pairs[Len(pairs) + 1 - j]])

\* pairs.sort(key=lambda x: x[1], reverse=True): stable
SortPairs(pairs) == SortedDesc(pairs)

\* for i, (doc_id, _score) in enumerate(results, start=1): the ids, in order
DropScores(pairs) == [j \in 1..Len(pairs) |-> pairs[j].id]

\* the other tools stand still
BranchesOnly ==
    UNCHANGED <<envVars, pipelineVars, calls, tokenizer, ctor, builder, bridge,
                cache, evalrun>>

\* _dense_search: list(zip(ids, distances))
BDenseSearch ==
    /\ branches # <<>>
    /\ branches.pc = "dense"
    /\ branches' = [branches EXCEPT
                       !.pc = "sparse",
                       !.dense = ScalePairs(branches.chroma,
                                            branches.c_dense)]
    /\ BranchesOnly

\* _sparse_search: pairs of (id, score), sorted by score
BSparseSearch ==
    /\ branches # <<>>
    /\ branches.pc = "sparse"
    /\ branches' = [branches EXCEPT
                       !.pc = "fuse",
                       !.sparse = SortPairs(ScalePairs(branches.bm25,
                                                       branches.c_sparse))]
    /\ BranchesOnly

\* fused_scores = self._rrf_fuse(dense_results=dense, sparse_results=sparse)
BRrfFuse ==
    /\ branches # <<>>
    /\ branches.pc = "fuse"
    /\ branches' = [branches EXCEPT
                       !.pc = "rank",
                       !.fused_scores = _rrf_fuse(DropScores(branches.dense),
                                                  DropScores(branches.sparse),
                                                  cfg.rrf_k, hashSeed)]
    /\ BranchesOnly

\* ranked_ids = [... sorted(fused_scores.items(), ..., reverse=True)]
BRank ==
    /\ branches # <<>>
    /\ branches.pc = "rank"
    /\ branches' = [branches EXCEPT
                       !.pc = "ranked",
                       !.ranked_ids = RankedIds(branches.fused_scores)]
    /\ BranchesOnly

\* every pair of raw result lists, every pair of factors on their scores
InitBranches ==
    /\ cfg = DefaultCfg(60)
    /\ hashSeed = <<"C", "A", "B">>
    /\ collection = EmptyDict
    /\ index = [dense |-> <<>>, sparse |-> <<>>, dense_raises |-> FALSE,
                sparse_raises |-> FALSE, get_order |-> <<>>]
    /\ \E ch \in RawResults(TRUE), bm \in RawResults(FALSE) :
       \E cd, cs \in ScaleFactors :
          branches = [pc |-> "dense", chroma |-> ch, bm25 |-> bm,
                      c_dense |-> cd, c_sparse |-> cs,
                      dense |-> <<>>, sparse |-> <<>>,
                      fused_scores |-> <<>>, ranked_ids |-> <<>>]
    /\ ToolsIdleExcept("branches")
    /\ PipelineIdle

NextBranches ==
    \/ BDenseSearch
    \/ BSparseSearch
    \/ BRrfFuse
    \/ BRank

SpecBranches == InitBranches /\ [][NextBranches]_vars

----------------------------------------------------------------------------
(* Tokenization of the corpus (build_bm25_index_v4) and of the query *)

\* longest text, in words
MaxWords == 2

\* lower-cased words of the texts
Words == {"the", "save", "saving", "budget", "budgets"}

\* the stop-word list bm25s uses for a stopwords argument
StopwordList(arg) == IF arg \in {"en", "english"} THEN {"the"} ELSE {}

\* Stemmer.Stemmer("english").stemWord
StemWord(w) ==
    CASE w = "saving"  -> "save"
      [] w = "budgets" -> "budget"
      [] OTHER         -> w

Texts == UNION {[1..m -> Words] : m \in 0..MaxWords}

\* bm25s.tokenize(text, stopwords=..., stemmer=...): stop words removed,
\* then each remaining word stemmed if a stemmer was given
Tokenize(text, stopwords, stemmer) ==
    LET kept == SelectSeq(text, LAMBDA w : w \notin StopwordList(stopwords))
    IN  [j \in 1..Len(kept) |-> IF stemmer THEN StemWord(kept[j]) ELSE kept[j]]

\* the other tools stand still
TokenizerOnly ==
    UNCHANGED <<envVars, pipelineVars, calls, branches, ctor, builder, bridge,
                cache, evalrun>>

\* build_index: tokenize_corpus(docs, stemming) (a stemmer only if stemming
\* was asked for and PyStemmer can be imported), then the index and the
\* meta file with the stemming flag
BuildIndex ==
    /\ tokenizer # <<>>
    /\ tokenizer.pc = "build"
    /\ LET stemmer == tokenizer.stemming /\ tokenizer.pystemmer
       IN  tokenizer' = [tokenizer EXCEPT
                            !.pc = "built",
                            !.corpus_stopwords = "en",
                            !.corpus_stemmer = stemmer,
                            !.corpus_tokens = Tokenize(tokenizer.doc, "en",
                                                       stemmer),
                            !.meta = [stemming |-> tokenizer.stemming]]
    /\ TokenizerOnly

\* _sparse_search: q_tokens = bm25s.tokenize(query), with the defaults
\* stopwords="english", stemmer=None
TokenizeQuery ==
    /\ tokenizer # <<>>
    /\ tokenizer.pc = "built"
    /\ tokenizer' = [tokenizer EXCEPT
                        !.pc = "searched",
                        !.query_stopwords = "english",
                        !.query_stemmer = FALSE,
                        !.q_tokens = Tokenize(tokenizer.query, "english",
                                              FALSE)]
    /\ TokenizerOnly

\* every document, every query, with and without --stemming, with and
\* without PyStemmer installed
InitTokenize ==
    /\ cfg = DefaultCfg(60)
    /\ hashSeed = <<"A", "B", "C">>
    /\ collection = EmptyDict
    /\ index = [dense |-> <<>>, sparse |-> <<>>, dense_raises |-> FALSE,
                sparse_raises |-> FALSE, get_order |-> <<>>]
    /\ \E d, q \in Texts : \E st, py \in BOOLEAN :
          tokenizer = [pc |-> "build", doc |-> d, query |-> q,
                       stemming |-> st, pystemmer |-> py,
                       corpus_stopwords |-> "", corpus_stemmer |-> FALSE,
                       corpus_tokens |-> <<>>, meta |-> <<>>,
                       query_stopwords |-> "", query_stemmer |-> FALSE,
                       q_tokens |-> <<>>]
    /\ ToolsIdleExcept("tokenizer")
    /\ PipelineIdle

NextTokenize ==
    \/ BuildIndex
    \/ TokenizeQuery

SpecTokenize == InitTokenize /\ [][NextTokenize]_vars

----------------------------------------------------------------------------
(* Construction of the retriever *)

\* contents a meta file may have: {"ids": [...]}, {"ids": "..."} (not a
\* list), a JSON object without "ids"
MetaFiles == {[has_ids |-> TRUE, ids_is_list |-> TRUE],
              [has_ids |-> TRUE, ids_is_list |-> FALSE],
              [has_ids |-> FALSE, ids_is_list |-> FALSE]}

\* what is on disk when the constructor runs: the Chroma collection, the
\* BM25 index directory and, inside it, the meta file and the index files
Disks ==
    {d \in [collection : BOOLEAN, index_dir : BOOLEAN, meta_file : BOOLEAN,
            meta : MetaFiles, index_files : BOOLEAN] :
        /\ d.meta_file => d.index_dir
        /\ d.index_files => d.index_dir
        /\ ~d.meta_file => d.meta = [has_ids |-> FALSE, ids_is_list |-> FALSE]}

\* the attributes of an object whose __init__ has not assigned any
NoAttrs == [cfg |-> "unset", _client |-> "unset", _collection |-> "unset",
            _bm25 |-> "unset", _bm25_ids |-> "unset"]

\* the other tools stand still
CtorOnly ==
    UNCHANGED <<envVars, pipelineVars, calls, branches, tokenizer, builder,
                bridge, cache, evalrun>>

\* an exception leaves __init__: the name on the left of the call is never
\* bound
CtorRaise(error) ==
    ctor' = [ctor EXCEPT !.pc = "raised", !.error = error]

\* a check of the key only: any value under "ids" passes
MetaValidKeyOnly(meta) == meta.has_ids

\* not ("ids" not in meta or not isinstance(meta["ids"], list))
MetaValid(meta) == meta.has_ids /\ meta.ids_is_list

\* self.cfg = cfg or RetrieverConfig(); self._client = ...
CtorLoadClient ==
    /\ ctor # <<>>
    /\ ctor.pc = "init"
    /\ ctor' = [ctor EXCEPT !.pc = "collection",
                            !.self.cfg = IF ctor.arg = "None" THEN "default"
                                         ELSE ctor.arg,
                            !.self._client = "loaded"]
    /\ CtorOnly

\* self._collection = self._get_existing_collection(...)
CtorGetCollection ==
    /\ ctor # <<>>
    /\ ctor.pc = "collection"
    /\ IF ~ctor.disk.collection
       THEN CtorRaise("RuntimeError")
       ELSE ctor' = [ctor EXCEPT !.pc = "bm25",
                                 !.self._collection = "loaded"]
    /\ CtorOnly

\* self._bm25, self._bm25_ids = self._load_bm25_with_ids()
CtorLoadBm25 ==
    /\ ctor # <<>>
    /\ ctor.pc = "bm25"
    /\ IF ~ctor.disk.index_dir THEN CtorRaise("FileNotFoundError")
       ELSE IF ~ctor.disk.meta_file THEN CtorRaise("FileNotFoundError")
       ELSE IF ~MetaValid(ctor.disk.meta) THEN CtorRaise("ValueError")
       ELSE IF ~ctor.disk.index_files THEN CtorRaise("FileNotFoundError")
       ELSE ctor' = [ctor EXCEPT !.pc = "return",
                                 !.self._bm25 = "loaded",
                                 !.self._bm25_ids = "loaded"]
    /\ CtorOnly

\* retriever = HybridRetrieverV4(cfg) has returned
CtorReturn ==
    /\ ctor # <<>>
    /\ ctor.pc = "return"
    /\ ctor' = [ctor EXCEPT !.pc = "constructed", !.retriever = ctor.self]
    /\ CtorOnly

\* retriever.retrieve(...): possible only on a name that is bound
CtorRetrieve ==
    /\ ctor # <<>>
    /\ ctor.retriever # NoAttrs
    /\ ctor.retrieve_calls < 2
    /\ ctor' = [ctor EXCEPT !.retrieve_calls = @ + 1]
    /\ CtorOnly

InitCtor ==
    /\ cfg = DefaultCfg(60)
    /\ hashSeed = <<"A", "B", "C">>
    /\ collection = EmptyDict
    /\ index = [dense |-> <<>>, sparse |-> <<>>, dense_raises |-> FALSE,
                sparse_raises |-> FALSE, get_order |-> <<>>]
    /\ \E d \in Disks : \E a \in {"None", "default", "custom"} :
          ctor = [pc |-> "init", arg |-> a, disk |-> d, self |-> NoAttrs,
                  retriever |-> NoAttrs, error |-> "", retrieve_calls |-> 0]
    /\ ToolsIdleExcept("ctor")
    /\ PipelineIdle

NextCtor ==
    \/ CtorLoadClient
    \/ CtorGetCollection
    \/ CtorLoadBm25
    \/ CtorReturn
    \/ CtorRetrieve

SpecCtor == InitCtor /\ [][NextCtor]_vars

----------------------------------------------------------------------------
(* The BM25 index builder: load_from_chroma *)

\* most rows in the collection the builder reads
MaxRows == 3

\* rows fetched per page (batch in load_from_chroma)
PageSize == 2

\* the document of a row: None, empty, blank, or a text (two rows may hold
\* the same text)
RowDocs == {"None", "", "  ", "alpha", "beta"}

\* str.strip()
Strip(d) ==
    CASE d = "  "   -> ""
      [] d = "Ch1 " -> "Ch1"
      [] OTHER      -> d

\* d is None or str(d).strip() == ""
Unusable(d) == d = "None" \/ Strip(d) = ""

\* the rows of a collection, in the order it pages through them: ids are
\* unique
RowLists ==
    UNION {{[j \in 1..m |-> [id |-> ids[j], doc |-> ds[j]]] :
               ids \in {i \in [1..m -> RetrieveIds] :
                           \A a, b \in 1..m : a # b => i[a] # i[b]},
               ds \in [1..m -> RowDocs]}
           : m \in 0..MaxRows}

\* col.get(include=["documents"], limit=batch, offset=offset)
GetPage(rows, limit, offset) ==
    SubSeq(rows, offset + 1, Min(offset + limit, Len(rows)))

\* for i, d in zip(got_ids, got_docs): skip the unusable, append the rest
\* to ids and docs together
RECURSIVE AppendPage(_, _, _)
AppendPage(lists, page, j) ==
    IF j > Len(page) THEN lists
    ELSE IF Unusable(page[j].doc) THEN AppendPage(lists, page, j + 1)
    ELSE AppendPage([ids  |-> Append(lists.ids, page[j].id),
                     docs |-> Append(lists.docs, page[j].doc)],
                    page, j + 1)

\* an offset that moves on by one row less than a page
NextOffsetOverlapping(offset, batch) == offset + batch - 1

\* offset += batch
NextOffset(offset, batch) == offset + batch

\* the other tools stand still
BuilderOnly ==
    UNCHANGED <<envVars, pipelineVars, calls, branches, tokenizer, ctor,
                bridge, cache, evalrun>>

\* total = col.count(); ids = []; docs = []; offset = 0
LoadStart ==
    /\ builder # <<>>
    /\ builder.pc = "start"
    /\ builder' = [builder EXCEPT !.pc = "loop",
                                  !.total = Len(builder.rows),
                                  !.ids = <<>>, !.docs = <<>>, !.offset = 0]
    /\ BuilderOnly

\* one turn of while offset < total
LoadPage ==
    /\ builder # <<>>
    /\ builder.pc = "loop"
    /\ builder.offset < builder.total
    /\ LET got   == GetPage(builder.rows, PageSize, builder.offset)
           lists == AppendPage([ids |-> builder.ids, docs |-> builder.docs],
                               got, 1)
       IN  builder' = [builder EXCEPT
                          !.ids = lists.ids,
                          !.docs = lists.docs,
                          !.offset = NextOffset(builder.offset, PageSize)]
    /\ BuilderOnly

\* the loop is left: RuntimeError if no ids, else return ids, docs
LoadReturn ==
    /\ builder # <<>>
    /\ builder.pc = "loop"
    /\ ~(builder.offset < builder.total)
    /\ builder' = [builder EXCEPT
                      !.pc = IF builder.ids = <<>> THEN "RuntimeError"
                             ELSE "loaded"]
    /\ BuilderOnly

\* build_index: the index over docs, position by position, and the meta
\* file with ids
BuildSave ==
    /\ builder # <<>>
    /\ builder.pc = "loaded"
    /\ builder' = [builder EXCEPT !.pc = "saved",
                                  !.corpus = builder.docs,
                                  !.meta_ids = builder.ids]
    /\ BuilderOnly

\* _sparse_search: the index answers with a position, which is mapped to
\* self._bm25_ids[i]
SparseHit ==
    /\ builder # <<>>
    /\ builder.pc = "saved"
    /\ \E j \in 1..Len(builder.corpus) :
          builder' = [builder EXCEPT
                         !.pc = "searched",
                         !.hit = [id |-> builder.meta_ids[j],
                                  doc |-> builder.corpus[j]]]
    /\ BuilderOnly

InitBuilder ==
    /\ cfg = DefaultCfg(60)
    /\ hashSeed = <<"A", "B", "C">>
    /\ collection = EmptyDict
    /\ index = [dense |-> <<>>, sparse |-> <<>>, dense_raises |-> FALSE,
                sparse_raises |-> FALSE, get_order |-> <<>>]
    /\ \E r \in RowLists :
          builder = [pc |-> "start", rows |-> r, total |-> 0, ids |-> <<>>,
                     docs |-> <<>>, offset |-> 0, corpus |-> <<>>,
                     meta_ids |-> <<>>, hit |-> <<>>]
    /\ ToolsIdleExcept("builder")
    /\ PipelineIdle

NextBuilder ==
    \/ LoadStart
    \/ LoadPage
    \/ LoadReturn
    \/ BuildSave
    \/ SparseHit

\* the builder is a sequential program that keeps running
SpecBuilder == InitBuilder /\ [][NextBuilder]_vars /\ WF_vars(NextBuilder)

----------------------------------------------------------------------------
(* retriever_bridge.retrieve_context *)

\* longest list the retriever hands to retrieve_context
MaxRaw == 3

\* the chapter label in an item's metadata: none, two spellings of one
\* chapter, an excluded chapter
Labels == {"", "Ch1", "Ch1 ", "Index"}

\* EXCLUDE_CHAPTERS
ExcludeChapters == {"Index"}

\* the argument k: None, ints, a float, a bool
BridgeKArgs == {[type |-> "None", v |-> 0], [type |-> "int", v |-> 0],
                [type |-> "int", v |-> 1], [type |-> "int", v |-> 2],
                [type |-> "float", v |-> 2], [type |-> "bool", v |-> 1]}

\* rag_config.json, retriever section: counts and switches
BridgeConfigs == [k_default : 0..2, max_per_chapter : 0..2,
                  use_filters : BOOLEAN, use_per_chapter_cap : BOOLEAN]

\* isinstance(k, int): ints and bools
IsInt(k) == k.type \in {"int", "bool"}

\* k_eff = int(k) if isinstance(k, int) and k > 0 else K_DEFAULT
KEff(k, k_default) == IF IsInt(k) /\ k.v > 0 THEN k.v ELSE k_default

\* (meta.get("chapter_title") or ... or default).strip()
ChapterKey(label, default) == Strip(IF label = "" THEN default ELSE label)

\* a membership test that never finds the id
SeenNever(seen_ids, doc_id) == FALSE

\* doc_id in seen_ids
Seen(seen_ids, doc_id) == doc_id \in seen_ids

\* loop 1: drop excluded chapters and ids seen before, keep the order
RECURSIVE Prelim(_, _, _, _, _)
Prelim(raw, j, seen_ids, labels, use_filters) ==
    IF j > Len(raw) THEN <<>>
    ELSE IF use_filters /\ ChapterKey(labels[raw[j]], "") \in ExcludeChapters
    THEN Prelim(raw, j + 1, seen_ids, labels, use_filters)
    ELSE IF Seen(seen_ids, raw[j])
    THEN Prelim(raw, j + 1, seen_ids, labels, use_filters)
    ELSE <<raw[j]>> \o Prelim(raw, j + 1, seen_ids \cup {raw[j]}, labels,
                              use_filters)

\* a cap that lets one item more through
CapReachedLate(cnt, max_per_chapter) == cnt > max_per_chapter

\* cnt >= MAX_PER_CHAPTER
CapReached(cnt, max_per_chapter) == cnt >= max_per_chapter

\* loop 2: at most max_per_chapter items per chapter, keep the order
RECURSIVE Capped(_, _, _, _, _, _)
Capped(prelim, j, per_chapter_count, labels, use_cap, max_per_chapter) ==
    IF j > Len(prelim) THEN <<>>
    ELSE LET chapter == ChapterKey(labels[prelim[j]], "_unknown_")
             cnt     == Get(per_chapter_count, chapter, 0)
         IN  IF use_cap /\ CapReached(cnt, max_per_chapter)
             THEN Capped(prelim, j + 1, per_chapter_count, labels, use_cap,
                         max_per_chapter)
             ELSE <<prelim[j]>>
                  \o Capped(prelim, j + 1,
                            [c \in DOMAIN per_chapter_count \cup {chapter} |->
                                IF c = chapter THEN cnt + 1
                                ELSE per_chapter_count[c]],
                            labels, use_cap, max_per_chapter)

\* the other tools stand still
BridgeOnly ==
    UNCHANGED <<envVars, pipelineVars, calls, branches, tokenizer, ctor,
                builder, cache, evalrun>>

\* k_eff and raw = retriever.retrieve(question, k=max(k_eff * 3, k_eff)):
\* the retriever answers with some list no longer than the k it was asked
\* for (final_k of its configuration when that k is 0)
BridgeRetrieve ==
    /\ bridge # <<>>
    /\ bridge.pc = "call"
    /\ LET k_eff == KEff(bridge.k, bridge.config.k_default)
           asked == IF k_eff * 3 >= k_eff THEN k_eff * 3 ELSE k_eff
           limit == IF asked = 0 THEN cfg.final_k ELSE asked
       IN  \E m \in 0..MaxRaw : \E raw \in [1..m -> RetrieveIds] :
              /\ m <= limit
              /\ bridge' = [bridge EXCEPT !.pc = "filter", !.k_eff = k_eff,
                                          !.asked = asked, !.raw = raw]
    /\ BridgeOnly

\* loops 1 and 2, the cut filtered[:k_eff], the references, return
BridgeFilter ==
    /\ bridge # <<>>
    /\ bridge.pc = "filter"
    /\ LET prelim   == Prelim(bridge.raw, 1, {}, bridge.labels,
                              bridge.config.use_filters)
           filtered == Capped(prelim, 1, EmptyDict, bridge.labels,
                              bridge.config.use_per_chapter_cap,
                              bridge.config.max_per_chapter)
           cut      == PyPrefix(filtered, bridge.k_eff)
       IN  bridge' = [bridge EXCEPT
                         !.pc = "returned",
                         !.refs = [j \in 1..Len(cut) |->
                                      [id |-> cut[j],
                                       chapter |-> bridge.labels[cut[j]]]]]
    /\ BridgeOnly

InitBridge ==
    /\ cfg = [DefaultCfg(60) EXCEPT !.final_k = 10]
    /\ hashSeed = <<"A", "B", "C">>
    /\ collection = EmptyDict
    /\ index = [dense |-> <<>>, sparse |-> <<>>, dense_raises |-> FALSE,
                sparse_raises |-> FALSE, get_order |-> <<>>]
    /\ \E c \in BridgeConfigs, k \in BridgeKArgs :
       \E l \in [RetrieveIds -> Labels] :
          bridge = [pc |-> "call", config |-> c, k |-> k, labels |-> l,
                    k_eff |-> 0, asked |-> 0, raw |-> <<>>, refs |-> <<>>]
    /\ ToolsIdleExcept("bridge")
    /\ PipelineIdle

NextBridge ==
    \/ BridgeRetrieve
    \/ BridgeFilter

SpecBridge == InitBridge /\ [][NextBridge]_vars

----------------------------------------------------------------------------
(* retriever_bridge._get_retriever: the cached retriever *)

\* calls of retrieve_context one thread makes, one after the other
MaxCalls == 2

\* threads of the process that call retrieve_context (one per session of
\* the web interface)
Sessions == {1, 2, 3}

\* no instance
NoInstance == 0

\* the other tools stand still
CacheOnly ==
    UNCHANGED <<envVars, pipelineVars, calls, branches, tokenizer, ctor,
                builder, bridge, evalrun>>

\* the thread goes on
Goes(t, frame) ==
    cache' = [cache EXCEPT !.threads[t] = frame]

\* retrieve_context: retriever = _get_retriever(); the lru_cache wrapper
\* looks the key up: a hit returns the cached instance, a miss goes on to
\* call the wrapped function
CacheLookup(t) ==
    /\ cache # <<>>
    /\ cache.threads[t].pc = "idle"
    /\ cache.threads[t].done < MaxCalls
    /\ IF cache.entry # NoInstance
       THEN Goes(t, [cache.threads[t] EXCEPT !.pc = "retrieve",
                                             !.retriever = cache.entry])
       ELSE Goes(t, [cache.threads[t] EXCEPT !.pc = "construct"])
    /\ CacheOnly

\* the wrapped function: HybridRetrieverV4(cfg or RetrieverConfig()), a new
\* object; the wrapper holds no lock while it runs
CacheConstruct(t) ==
    /\ cache # <<>>
    /\ cache.threads[t].pc = "construct"
    /\ cache' = [cache EXCEPT
                    !.constructed = @ + 1,
                    !.threads[t] = [cache.threads[t] EXCEPT
                                       !.pc = "store",
                                       !.retriever = cache.constructed + 1]]
    /\ CacheOnly

\* the wrapper stores the result under the key unless the key was added
\* meanwhile, and returns the result of its own call
CacheStore(t) ==
    /\ cache # <<>>
    /\ cache.threads[t].pc = "store"
    /\ cache' = [cache EXCEPT
                    !.entry = IF cache.entry = NoInstance
                              THEN cache.threads[t].retriever
                              ELSE cache.entry,
                    !.threads[t] = [cache.threads[t] EXCEPT
                                       !.pc = "retrieve"]]
    /\ CacheOnly

\* raw = retriever.retrieve(...) and the rest of retrieve_context
CacheUse(t) ==
    /\ cache # <<>>
    /\ cache.threads[t].pc = "retrieve"
    /\ Goes(t, [cache.threads[t] EXCEPT
                   !.pc = "idle",
                   !.used = @ \cup {cache.threads[t].retriever},
                   !.done = @ + 1])
    /\ CacheOnly

\* a fresh process: nothing cached, nothing constructed; the sessions that
\* will call are some of the threads
InitCache ==
    /\ cfg = DefaultCfg(60)
    /\ hashSeed = <<"A", "B", "C">>
    /\ collection = EmptyDict
    /\ index = [dense |-> <<>>, sparse |-> <<>>, dense_raises |-> FALSE,
                sparse_raises |-> FALSE, get_order |-> <<>>]
    /\ cache = [entry |-> NoInstance, constructed |-> 0,
                threads |-> [t \in Sessions |->
                                [pc |-> "idle", retriever |-> NoInstance,
                                 used |-> {}, done |-> 0]]]
    /\ ToolsIdleExcept("cache")
    /\ PipelineIdle

NextCache ==
    \/ \E t \in Sessions : CacheLookup(t)
    \/ \E t \in Sessions : CacheConstruct(t)
    \/ \E t \in Sessions : CacheStore(t)
    \/ \E t \in Sessions : CacheUse(t)

SpecCache == InitCache /\ [][NextCache]_vars

----------------------------------------------------------------------------
(* evaluate_retriever_v4: an evaluation run *)

\* most queries in the qrels file
MaxQrels == 3

\* values of --k (10 is its default)
EvalKs == {1, 2, 3, 5, 10, 20}

\* values of --candidates (<<>>: not given)
EvalCandidates == {<<>>, <<20>>}

\* RetrieverConfig(): the dataclass defaults the run starts from
RetrieverConfigDefaults == [candidate_pool |-> 40, rrf_k |-> 60, final_k |-> 10]

\* the other tools stand still
EvalOnly ==
    UNCHANGED <<envVars, pipelineVars, calls, branches, tokenizer, ctor,
                builder, bridge, cache>>

\* main: cfg = RetrieverConfig() with the overrides of the command line
\* (final_k has none), the retriever, the qrels
EvalMain ==
    /\ evalrun # <<>>
    /\ evalrun.pc = "main"
    /\ evalrun' = [evalrun EXCEPT
                      !.pc = "evaluate",
                      !.cfg = [RetrieverConfigDefaults EXCEPT
                                  !.candidate_pool =
                                      IF evalrun.args.candidates # <<>>
                                      THEN evalrun.args.candidates[1]
                                      ELSE @]]
    /\ EvalOnly

\* evaluate(retriever, qrels, k=int(args.k)), one turn of its loop:
\* retriever.retrieve(query, k=k), then the metrics at k
EvalQuery ==
    /\ evalrun # <<>>
    /\ evalrun.pc = "evaluate"
    /\ evalrun.next <= evalrun.qrels
    /\ evalrun' = [evalrun EXCEPT
                      !.next = @ + 1,
                      !.retrieve_k = Append(@, evalrun.args.k),
                      !.metrics_k = Append(@, evalrun.args.k)]
    /\ EvalOnly

\* evaluate: the summary, with "k": k
EvalSummary ==
    /\ evalrun # <<>>
    /\ evalrun.pc = "evaluate"
    /\ evalrun.next > evalrun.qrels
    /\ evalrun' = [evalrun EXCEPT
                      !.pc = "run_info",
                      !.summary = [queries |-> evalrun.qrels,
                                   k |-> evalrun.args.k]]
    /\ EvalOnly

\* main: run_info with "params": {"k": cfg.final_k if cfg.final_k else
\* args.k, ...}, written to --out-json
EvalRunInfo ==
    /\ evalrun # <<>>
    /\ evalrun.pc = "run_info"
    /\ evalrun' = [evalrun EXCEPT
                      !.pc = "written",
                      !.params = [k |-> IF evalrun.cfg.final_k # 0
                                        THEN evalrun.cfg.final_k
                                        ELSE evalrun.args.k,
                                  candidate_pool |-> evalrun.cfg.candidate_pool,
                                  rrf_k |-> evalrun.cfg.rrf_k]]
    /\ EvalOnly

InitEval ==
    /\ cfg = DefaultCfg(60)
    /\ hashSeed = <<"A", "B", "C">>
    /\ collection = EmptyDict
    /\ index = [dense |-> <<>>, sparse |-> <<>>, dense_raises |-> FALSE,
                sparse_raises |-> FALSE, get_order |-> <<>>]
    /\ \E k \in EvalKs, c \in EvalCandidates, n \in 0..MaxQrels :
          evalrun = [pc |-> "main", args |-> [k |-> k, candidates |-> c],
                     qrels |-> n, next |-> 1, cfg |-> <<>>,
                     retrieve_k |-> <<>>, metrics_k |-> <<>>,
                     summary |-> <<>>, params |-> <<>>]
    /\ ToolsIdleExcept("evalrun")
    /\ PipelineIdle

NextEval ==
    \/ EvalMain
    \/ EvalQuery
    \/ EvalSummary
    \/ EvalRunInfo

SpecEval == InitEval /\ [][NextEval]_vars

----------------------------------------------------------------------------
(* Properties of the fusion stage *)

IdsOf(list) == {list[i] : i \in 1..Len(list)}

\* 1-based position of an id in a branch list without repeats
PosIn(list, id) == CHOOSE r \in 1..Len(list) : list[r] = id

FusedKeys == {fused_scores[i].id : i \in 1..Len(fused_scores)}

FusedScoreOf(id) == ItemsGet(fused_scores, id, 0)

Fused == pc \in {"rank", "mmr"}

\* C1: after _rrf_fuse every id of either branch has the fused score
\* sum over the branches holding it of 1/(k + r), r its 1-based position
\* there; a branch without the id adds nothing.  Scores are numerators over
\* FusedDen(k), so "score = 1/(k+r)" reads "score * (k+r) = FusedDen(k)".
ThmRrfSum ==
    Fused =>
        \A id \in IdsOf(dense) \cup IdsOf(sparse) :
            LET k == cfg.rrf_k
                s == FusedScoreOf(id)
            IN  IF id \in IdsOf(dense) /\ id \in IdsOf(sparse)
                THEN LET a == k + PosIn(dense, id)
                         b == k + PosIn(sparse, id)
                     IN  s * a * b = FusedDen(k) * (a + b)
                ELSE IF id \in IdsOf(dense)
                     THEN s * (k + PosIn(dense, id)) = FusedDen(k)
                     ELSE s * (k + PosIn(sparse, id)) = FusedDen(k)

\* C1 witness: fusion ran with k = 60 on lists where one id is in both
\* branches at different ranks and another id is in one branch only
WitRrfSum ==
    /\ Fused
    /\ cfg.rrf_k = 60
    /\ \E x, y \in Ids :
          /\ x \in IdsOf(dense) /\ x \in IdsOf(sparse)
          /\ PosIn(dense, x) # PosIn(sparse, x)
          /\ y \in IdsOf(sparse) /\ y \notin IdsOf(dense)

ScenarioC2 ==
    /\ sparse = <<"A", "B", "C">>
    /\ dense = <<"B", "D", "A">>
    /\ cfg.rrf_k = 60

ScenarioC2Scores ==
    /\ FusedScoreOf("A") * 61 * 63 = FusedDen(60) * (61 + 63)
    /\ FusedScoreOf("B") * 62 * 61 = FusedDen(60) * (62 + 61)
    /\ FusedScoreOf("C") * 63 = FusedDen(60)
    /\ FusedScoreOf("D") * 62 = FusedDen(60)

\* C2 as stated: sparse = [A,B,C], dense = [B,D,A], k_rrf = 60 gives
\* A = 1/61 + 1/63, B = 1/62 + 1/61, C = 1/63, D = 1/62 and the
\* descending fused order A, B, D, C
ClaimScenarioOrderABDC ==
    (ScenarioC2 /\ pc = "mmr") =>
        /\ ScenarioC2Scores
        /\ ranked_ids = <<"A", "B", "D", "C">>

\* C2 amended: same scenario, same scores, but the descending fused order
\* is B, A, D, C (1/62 + 1/61 > 1/61 + 1/63)
ThmScenarioOrderBADC ==
    (ScenarioC2 /\ pc = "mmr") =>
        /\ ScenarioC2Scores
        /\ ranked_ids = <<"B", "A", "D", "C">>

\* C2 witness: the scenario has been fused and ranked
WitScenarioC2 == ScenarioC2 /\ pc = "mmr" /\ Len(ranked_ids) = 4

\* C3: the key set of the fused map is exactly the union of the ids of the
\* two branch lists, each key occurs once, every score is >= 0
ThmFusedCoverage ==
    Fused =>
        /\ FusedKeys = IdsOf(dense) \cup IdsOf(sparse)
        /\ \A i, j \in 1..Len(fused_scores) :
              i # j => fused_scores[i].id # fused_scores[j].id
        /\ \A i \in 1..Len(fused_scores) : fused_scores[i].score >= 0

\* C3 witness: each branch has an id the other lacks, and some id is in
\* neither branch
WitFusedCoverage ==
    /\ Fused
    /\ IdsOf(dense) \ IdsOf(sparse) # {}
    /\ IdsOf(sparse) \ IdsOf(dense) # {}
    /\ Ids \ (IdsOf(dense) \cup IdsOf(sparse)) # {}
    /\ Len(fused_scores) = Cardinality(IdsOf(dense) \cup IdsOf(sparse))

\* ids in first-seen order: the first branch, then the new ids of the second
FirstSeen(first, second) ==
    first \o SelectSeq(second, LAMBDA x : x \notin IdsOf(first))

\* ties of the ranking follow the first-seen order
TiesFollow(order) ==
    \A i, j \in 1..Len(ranked_ids) :
        (i < j /\ FusedScoreOf(ranked_ids[i]) = FusedScoreOf(ranked_ids[j]))
            => PosIn(order, ranked_ids[i]) < PosIn(order, ranked_ids[j])

\* C4 as stated: ids with equal fused scores are ranked by first-seen
\* branch, then by rank within it, whatever the iteration order of the id
\* set (either branch may be read as the earlier one)
ClaimTieBreakFirstSeen ==
    pc = "mmr" =>
        \/ TiesFollow(FirstSeen(dense, sparse))
        \/ TiesFollow(FirstSeen(sparse, dense))

----------------------------------------------------------------------------
(* Properties of the diversity selection *)

PoolSize == Len(ranked_ids)

NoRepeats(s) == \A i, j \in 1..Len(s) : i # j => s[i] # s[j]

\* _mmr_select has returned (it did not raise)
MmrReturned == pc = "hydrate"

\* the loop ran: a first pick exists
MmrPicked == pc \in {"mmr_loop", "hydrate"} /\ selected # <<>>

\* C6: for k > 0, _mmr_select returns exactly min(k, pool size) ids, all
\* distinct, all from the pool, in the order they were selected (the
\* fallback returns the head of the ranking as it stands)
ThmMmrCount ==
    (MmrReturned /\ final_k > 0) =>
        /\ Len(selected_ids) = Min(final_k, PoolSize)
        /\ NoRepeats(selected_ids)
        /\ IdsOf(selected_ids) \subseteq IdsOf(ranked_ids)
        /\ IF selected # <<>>
           THEN \A j \in 1..Len(selected_ids) :
                    selected_ids[j] = ranked_ids[selected[j]]
           ELSE \A j \in 1..Len(selected_ids) :
                    selected_ids[j] = ranked_ids[j]

\* C6 witness: a return after the loop picked out of rank order, with k
\* below the pool size, and so a result that is not sorted by score
WitMmrCount ==
    /\ MmrReturned
    /\ final_k = 2
    /\ PoolSize = 3
    /\ selected = <<1, 3>>
    /\ Len(selected_ids) = 2

\* the set of indices picked before the j-th pick
PickedBefore(j) == {selected[i] : i \in 1..(j - 1)}

\* max over the already-selected s of similarity(d, s)
MaxSimTo(d, S) == CHOOSE m \in {sim[d][s] : s \in S} :
                      \A s \in S : sim[d][s] <= m

\* lambda * relevance(d) - (1 - lambda) * max similarity, times the
\* positive constant lambda.den * rel.den * SimDen
MmrScore(d, S) ==
    cfg.mmr_lambda.num * rel.num[d] * SimDen
        - (cfg.mmr_lambda.den - cfg.mmr_lambda.num) * MaxSimTo(d, S) * rel.den

\* C7: every pick after the first is a remaining candidate that maximises
\* lambda * relevance - (1 - lambda) * max similarity to the picks made so
\* far; among the maximisers it is the one earliest in the fused ranking
ThmMmrArgmax ==
    MmrPicked =>
        \A j \in 2..Len(selected) :
            LET S == PickedBefore(j)
                d == selected[j]
            IN  /\ d \in (1..PoolSize) \ S
                /\ \A e \in (1..PoolSize) \ S :
                      /\ MmrScore(e, S) <= MmrScore(d, S)
                      /\ MmrScore(e, S) = MmrScore(d, S) => d <= e

\* C7 witness: with 0 < lambda < 1 three picks were made, and at the second
\* pick another remaining candidate had the same MMR value as the one taken
WitMmrArgmax ==
    /\ MmrPicked
    /\ Len(selected) = 3
    /\ cfg.mmr_lambda.num = 7
    /\ \E e \in (1..PoolSize) \ PickedBefore(2) :
          /\ e # selected[2]
          /\ MmrScore(e, PickedBefore(2)) = MmrScore(selected[2], PickedBefore(2))

LambdaIs(n) == cfg.mmr_lambda.num = n * cfg.mmr_lambda.den

\* the ranking handed to _mmr_select is in descending fused-score order
RankedDescending ==
    \A i \in 1..(PoolSize - 1) :
        FusedScoreOf(ranked_ids[i]) >= FusedScoreOf(ranked_ids[i + 1])

\* C8: with lambda = 1 and k > 0 the returned order is the first
\* min(k, pool size) ids of the descending fused ranking
ThmLambdaOne ==
    (MmrReturned /\ LambdaIs(1) /\ final_k > 0) =>
        /\ RankedDescending
        /\ selected_ids = SubSeq(ranked_ids, 1, Min(final_k, PoolSize))

\* C8 witness: lambda = 1, the loop ran to three picks over a pool holding
\* equal fused scores and a pair of near-duplicate embeddings
WitLambdaOne ==
    /\ MmrReturned
    /\ LambdaIs(1)
    /\ Len(selected) = 3
    /\ FusedScoreOf(ranked_ids[2]) = FusedScoreOf(ranked_ids[3])
    /\ sim[1][2] > sim[1][3]

\* C9: with lambda = 0 the first pick has the highest relevance and every
\* later pick has the least maximum similarity to the picks made so far
\* among the remaining candidates
ThmLambdaZero ==
    (MmrPicked /\ LambdaIs(0)) =>
        /\ \A i \in 1..PoolSize :
              FusedScoreOf(ranked_ids[i]) <= FusedScoreOf(ranked_ids[selected[1]])
        /\ \A j \in 2..Len(selected) :
              \A e \in (1..PoolSize) \ PickedBefore(j) :
                  MaxSimTo(selected[j], PickedBefore(j))
                      <= MaxSimTo(e, PickedBefore(j))

\* C9 witness: lambda = 0 and the second pick is the candidate with the
\* lowest fused score, taken for its low similarity to the first
WitLambdaZero ==
    /\ MmrPicked
    /\ LambdaIs(0)
    /\ Len(selected) >= 2
    /\ selected[2] = 3
    /\ FusedScoreOf(ranked_ids[3]) < FusedScoreOf(ranked_ids[2])
    /\ sim[3][1] < sim[2][1]

\* pool {A, B, C}, fused scores 0.9, 0.8, 0.85, sim(A,B) = 0.95,
\* sim(A,C) = 0.1, lambda = 0.5, k = 2
ScenarioC10 ==
    /\ ranked_ids = <<"A", "C", "B">>
    /\ FusedScoreOf("A") = 90 /\ FusedScoreOf("B") = 80 /\ FusedScoreOf("C") = 85
    /\ DOMAIN collection = {"A", "B", "C"}
    /\ collection["A"] # NoVector /\ collection["B"] # NoVector
    /\ collection["C"] # NoVector
    /\ CosSim(collection["A"], collection["B"]) * 100 = 95 * SimDen
    /\ CosSim(collection["A"], collection["C"]) * 10 = 1 * SimDen
    /\ cfg.mmr_lambda = [num |-> 1, den |-> 2]
    /\ final_k = 2

\* C10: in that scenario the selection is A first and C second
ThmScenarioMMR ==
    (ScenarioC10 /\ MmrReturned) => selected_ids = <<"A", "C">>

\* C10 witness: the scenario ran through the loop and returned
WitScenarioMMR ==
    /\ ScenarioC10
    /\ MmrReturned
    /\ Len(selected) = 2
    /\ sim[1][3] * 100 = 95 * SimDen

----------------------------------------------------------------------------
(* Properties of the normalisation and of the failure paths of _mmr_select *)

\* the relevance vector has been computed (the pool was not empty)
Normalized == pc \in {"mmr_loop", "hydrate", "KeyError", "ValueError"}
                  /\ rel # <<>>

AllScoresEqual ==
    \A i, j \in 1..PoolSize :
        FusedScoreOf(ranked_ids[i]) = FusedScoreOf(ranked_ids[j])

\* the lowest and the highest fused score of the pool
PoolMinScore == CHOOSE m \in {FusedScoreOf(ranked_ids[i]) : i \in 1..PoolSize} :
                    \A i \in 1..PoolSize : m <= FusedScoreOf(ranked_ids[i])

PoolMaxScore == CHOOSE m \in {FusedScoreOf(ranked_ids[i]) : i \in 1..PoolSize} :
                    \A i \in 1..PoolSize : m >= FusedScoreOf(ranked_ids[i])

\* C11: _mmr_select min-max normalises the fused scores of the pool to
\* [0,1]: relevance = (score - min) / (max - min) over a positive
\* denominator.  When all scores of the pool are equal (a pool of one
\* included) every relevance is 0, the first pick is the first id of the
\* ranking, and every later pick has the least similarity term
\* (1 - lambda) * max similarity among the remaining candidates.
ThmNormalize ==
    /\ Normalized =>
          LET lo == PoolMinScore
              hi == PoolMaxScore
          IN  /\ rel.den > 0
              /\ Len(rel.num) = PoolSize
              /\ \A i \in 1..PoolSize :
                    /\ 0 <= rel.num[i] /\ rel.num[i] <= rel.den
                    /\ rel.num[i] * (hi - lo)
                           = (FusedScoreOf(ranked_ids[i]) - lo) * rel.den
              /\ hi = lo => \A i \in 1..PoolSize : rel.num[i] = 0
    /\ (MmrPicked /\ AllScoresEqual) =>
          /\ selected[1] = 1
          /\ \A j \in 2..Len(selected) :
                \A e \in (1..PoolSize) \ PickedBefore(j) :
                    (cfg.mmr_lambda.den - cfg.mmr_lambda.num)
                            * MaxSimTo(selected[j], PickedBefore(j))
                        <= (cfg.mmr_lambda.den - cfg.mmr_lambda.num)
                            * MaxSimTo(e, PickedBefore(j))

\* C11 witness: a pool of three equal fused scores, lambda = 0.7, three
\* picks, the second of them taken out of rank order for its low similarity
WitNormalize ==
    /\ MmrReturned
    /\ AllScoresEqual
    /\ PoolSize = 3
    /\ cfg.mmr_lambda.num = 7
    /\ selected = <<1, 3, 2>>
    /\ sim[3][1] < sim[2][1]
    /\ \A i \in 1..PoolSize : rel.num[i] = 0

\* some candidate of the pool has no row in the collection, or a row
\* without a vector
EmbeddingMissing ==
    \E i \in 1..PoolSize :
        \/ ranked_ids[i] \notin DOMAIN collection
        \/ collection[ranked_ids[i]] = NoVector

\* C14 as stated: when the embedding of at least one candidate cannot be
\* fetched, _mmr_select does not raise and returns the fused ranking cut to
\* its first k ids
ClaimFallbackOnMissing ==
    (EmbeddingMissing /\ final_k > 0) =>
        /\ pc \notin {"KeyError", "ValueError"}
        /\ MmrReturned =>
              selected_ids = SubSeq(ranked_ids, 1, Min(final_k, PoolSize))

\* _mmr_select returned through "return ranked_ids[:k]"
TookFallback == MmrReturned /\ ranked_ids # <<>> /\ selected = <<>>

\* every 2-D array of embeddings the pool could have had
PoolEmbeddings == [1..PoolSize -> Vectors]

\* C15 as stated: a result of the fallback path can be told apart from a
\* result of the selection loop.  The list of ids is all that _mmr_select
\* hands back (it sets no flag and writes no log record), so: the list
\* returned by the fallback differs from every list the loop returns for
\* the same pool, k and lambda.
ClaimFallbackObservable ==
    TookFallback =>
        \A E \in PoolEmbeddings :
            selected_ids # MmrSelection(ranked_ids, rel, final_k,
                                        cfg.mmr_lambda, E)

----------------------------------------------------------------------------
(* Properties of repeated calls *)

\* C5 as stated: two runs of retrieve with the same dense results, sparse
\* results, stored embeddings and configuration return the same sequence of
\* ids with the same scores, also when candidates tie on the fused score
ClaimSameResultEveryRun ==
    (result.returned /\ prev_result.returned) => result = prev_result

----------------------------------------------------------------------------
(* Properties of retrieve(): branch failures, arguments, ordering of steps *)

\* C12 as stated: when the sparse search raises and the dense search
\* returns its candidates, retrieve does not fail; it goes on with an empty
\* sparse list to a dense-only result marked as degraded
ClaimDegradeAndFlag ==
    (index.sparse_raises /\ ~index.dense_raises) =>
        /\ pc # "SparseError"
        /\ pc \in {"fuse", "rank", "mmr", "mmr_loop", "hydrate", "done"}
               => sparse = <<>>

\* C13: when both branch searches fail, the call ends with the exception of
\* the dense search (the first one called) and nothing is ever returned
ThmBothFail ==
    (index.dense_raises /\ index.sparse_raises) =>
        /\ ~result.returned
        /\ pc \in {"idle", "dense", "DenseError"}

\* C13 witness: both indexes raise, the dense one would have had
\* candidates, and the call has ended with the exception
WitBothFail ==
    /\ index.dense_raises /\ index.sparse_raises
    /\ index.dense # <<>>
    /\ k_arg = <<2>>
    /\ pc = "DenseError"
    /\ ~result.returned

\* the out-of-range cases of the arguments: k <= 0, lambda outside [0, 1]
BadK == k_arg # <<>> /\ k_arg[1] <= 0

BadLambda == cfg.mmr_lambda.num < 0 \/ cfg.mmr_lambda.num > cfg.mmr_lambda.den

\* C17 as stated: with k <= 0, or with mmr_lambda outside [0, 1], a call
\* fails at once with a configuration error: it does not get as far as the
\* searches (no default k is put in place of k, the out-of-range lambda is
\* not used) and it returns nothing
ClaimConfigurationError ==
    (BadK \/ BadLambda) =>
        (pc \in {"idle", "ConfigurationError"} /\ ~result.returned)

\* fusion has started, or is about to
Fusing == pc \in {"fuse", "rank", "mmr", "mmr_loop", "hydrate", "done",
                  "KeyError", "ValueError"}

\* C20: fusion starts only when both branch searches have completed: from
\* the moment retrieve is at the fusion step, dense and sparse hold the
\* complete answers of the two searches, and the fused map is built from
\* both of them
ThmJoinBeforeFuse ==
    Fusing =>
        /\ ~index.dense_raises /\ ~index.sparse_raises
        /\ dense = PyPrefix(index.dense, cfg.candidate_pool)
        /\ sparse = PyPrefix(index.sparse, cfg.candidate_pool)
        /\ pc # "fuse" => FusedKeys = IdsOf(dense) \cup IdsOf(sparse)

\* C20 witness: fusion has run on two non-empty branch lists, the sparse
\* one (searched last) holding an id the dense one lacks
WitJoinBeforeFuse ==
    /\ pc = "rank"
    /\ dense # <<>> /\ sparse # <<>>
    /\ IdsOf(sparse) \ IdsOf(dense) # {}
    /\ Len(index.sparse) > Len(sparse)
    /\ Len(fused_scores) = Cardinality(IdsOf(dense) \cup IdsOf(sparse))

----------------------------------------------------------------------------
(* Properties of the payload fetch *)

PayloadIds == [i \in 1..Len(final_payload) |-> final_payload[i].id]

\* retrieve has fetched, scored and ordered the payload it is about to return
Hydrated == pc = "done"

\* C16 as stated: a selected id that has no row at the payload fetch is
\* dropped: the returned records are those of the selected ids that have a
\* row, in their order, none with an empty document and none added
ClaimDropMissing ==
    Hydrated =>
        /\ PayloadIds = SelectSeq(selected_ids,
                                  LAMBDA id : id \in DOMAIN collection)
        /\ \A i \in 1..Len(final_payload) : final_payload[i].document # ""

\* step 5 of retrieve for a batch size and a row order of the collection
PayloadWith(batch, order) ==
    SortByPos(AttachScores(_get_documents_by_ids(selected_ids, 0, batch,
                               collection, order, <<>>),
                           fused_scores),
              selected_ids)

\* C18: the ids of the returned records are the sequence _mmr_select
\* returned, and the records are the same for every order in which the
\* collection may yield the fetched rows and for every batch size
ThmSelectionOrderKept ==
    Hydrated =>
        /\ PayloadIds = selected_ids
        /\ \A order \in Orders(IdsOf(ranked_ids)) :
              PayloadWith(cfg.max_get_batch, order) = final_payload
        /\ \A batch \in 1..(MaxHydrate + 1) :
              PayloadWith(batch, index.get_order) = final_payload

\* C18 witness: three records returned in a selection order that is not
\* the rank order, fetched in two batches from a collection that yields
\* the last selected row first
WitSelectionOrderKept ==
    /\ Hydrated
    /\ selected = <<1, 3, 2>>
    /\ PayloadIds = <<ranked_ids[1], ranked_ids[3], ranked_ids[2]>>
    /\ cfg.max_get_batch = 2
    /\ index.get_order[1] = selected_ids[3]
    /\ \A i \in 1..3 : final_payload[i].document = DocumentOf(selected_ids[i])

RECURSIVE Concat(_)
Concat(seqs) == IF seqs = <<>> THEN <<>> ELSE Head(seqs) \o Concat(Tail(seqs))

\* the requests of one loop are bounded, cover ids once each and in order,
\* and are as few as the bound allows (the loop ends after them)
BatchedOnce(ids, batch) ==
    LET reqs == Requests(ids, 0, batch)
    IN  /\ \A r \in 1..Len(reqs) :
              Len(reqs[r]) >= 1 /\ Len(reqs[r]) <= batch
        /\ Concat(reqs) = ids
        /\ (Len(reqs) - 1) * batch < Len(ids) \/ ids = <<>>
        /\ Len(reqs) * batch >= Len(ids)

\* the embedding fetch of _mmr_select with all ids in one request
Unbatched == FetchEmbeddings(ranked_ids, 0, Len(ranked_ids), collection, <<>>)

\* C19: in both fetch loops every request holds at most max_get_batch
\* ids, the requests cover every id exactly once, the loop ends, and the
\* outcome (the embeddings, an exception, the payload) is the one of a
\* single request for all ids, for every batch size >= 1
ThmBatching ==
    /\ BatchedOnce(ranked_ids, cfg.max_get_batch)
    /\ pc \in {"mmr", "mmr_loop", "KeyError", "ValueError"} =>
          \A batch \in 1..(MaxHydrate + 1) :
              FetchEmbeddings(ranked_ids, 0, batch, collection, <<>>) = Unbatched
    /\ pc = "mmr_loop" => sim = _cosine_sim_matrix(Unbatched.embeddings)
    /\ pc = "KeyError" => Unbatched.raised = "KeyError"
    /\ pc = "ValueError" => ArrayShape(Unbatched.embeddings) = "ValueError"
    /\ Hydrated =>
          /\ BatchedOnce(selected_ids, cfg.max_get_batch)
          /\ final_payload = PayloadWith(Len(selected_ids), index.get_order)

\* C19 witness: a pool of three and three selected ids fetched with
\* max_get_batch = 2: both loops sent a full request and a short one
WitBatching ==
    /\ Hydrated
    /\ cfg.max_get_batch = 2
    /\ PoolSize = 3
    /\ Len(selected) = 3
    /\ Requests(selected_ids, 0, cfg.max_get_batch)
           = <<SubSeq(selected_ids, 1, 2), SubSeq(selected_ids, 3, 3)>>
    /\ Len(final_payload) = 3
    /\ DOMAIN collection = IdsOf(ranked_ids)

----------------------------------------------------------------------------
(* Properties of concurrent calls *)

\* C21: retrieve leaves the retriever's configuration and index handles as
\* they are, and under every interleaving of two calls on one retriever a
\* call that has returned returned what it returns when run alone, and a
\* call that raised raised what it raises when run alone
ThmCallsIndependent ==
    /\ [](\A t \in Threads :
            /\ calls[t].pc = "returned" =>
                  /\ RetrieveAlone(calls[t].k).raised = ""
                  /\ calls[t].result.payload = RetrieveAlone(calls[t].k).payload
            /\ calls[t].pc \in {"DenseError", "SparseError", "KeyError",
                                "ValueError"} =>
                  RetrieveAlone(calls[t].k).raised = calls[t].pc)
    /\ [][UNCHANGED <<cfg, hashSeed, collection, index>>]_vars

\* C21 witness: two calls on the one retriever, with different k, have both
\* returned, each with the result of its own k
WitCallsIndependent ==
    /\ calls[1].pc = "returned" /\ calls[2].pc = "returned"
    /\ calls[1].k = <<1>> /\ calls[2].k = <<3>>
    /\ Len(calls[1].result.payload) = 1
    /\ Len(calls[2].result.payload) = 3

----------------------------------------------------------------------------
(* Properties of the branch searches on raw scores *)

\* fused scores of the raw results with every score as the index gave it
UnscaledFused ==
    _rrf_fuse(DropScores(branches.chroma),
              DropScores(SortPairs(branches.bm25)), cfg.rrf_k, hashSeed)

\* C22: with the same candidates in both branches, multiplying every raw
\* score of a branch by a positive constant leaves the fused score map and
\* the fused ranking as they are with the unscaled scores
ThmScaleInvariant ==
    branches.pc = "ranked" =>
        /\ branches.fused_scores = UnscaledFused
        /\ branches.ranked_ids = RankedIds(UnscaledFused)

\* C22 witness: a ranking was fused after both branches' scores were scaled,
\* by different factors other than 1, which changed the scores of both
\* lists and made two different BM25 scores equal
WitScaleInvariant ==
    /\ branches.pc = "ranked"
    /\ branches.c_dense # One /\ branches.c_sparse # One
    /\ branches.c_dense # branches.c_sparse
    /\ Len(branches.bm25) = 2 /\ Len(branches.chroma) = 2
    /\ branches.bm25[1].score > branches.bm25[2].score
    /\ branches.sparse[1].score = branches.sparse[2].score
    /\ branches.dense[1].score # branches.chroma[1].score
    /\ DropScores(branches.chroma) # DropScores(branches.bm25)
    /\ Len(branches.ranked_ids) = 3

----------------------------------------------------------------------------
(* Properties of the tokenization *)

\* C23: the query is tokenized in _sparse_search with the policy the corpus
\* was tokenized with when the index was built (the same stop-word list,
\* the same stemming), so the query's tokens are those the builder's
\* tokenization gives for the query, whatever --stemming was
ClaimSameTokenization ==
    tokenizer.pc = "searched" =>
        /\ StopwordList(tokenizer.query_stopwords)
              = StopwordList(tokenizer.corpus_stopwords)
        /\ tokenizer.query_stemmer = tokenizer.corpus_stemmer
        /\ tokenizer.q_tokens = Tokenize(tokenizer.query,
                                         tokenizer.corpus_stopwords,
                                         tokenizer.corpus_stemmer)

----------------------------------------------------------------------------
(* Properties of the construction *)

\* the constructor has come to its end, one way or the other
CtorEnded == ctor.pc \in {"raised", "constructed"}

\* C24: when the Chroma collection does not exist, or the BM25 directory or
\* the meta file is missing, or the meta file has no list under "ids", the
\* construction ends with an error and no retriever; and retrieve is only
\* ever called on a retriever whose two handles were loaded
ThmCtorFails ==
    /\ (/\ CtorEnded
        /\ \/ ~ctor.disk.collection
           \/ ~ctor.disk.index_dir
           \/ ~ctor.disk.meta_file
           \/ ~(ctor.disk.meta.has_ids /\ ctor.disk.meta.ids_is_list))
       => /\ ctor.error \in {"RuntimeError", "FileNotFoundError", "ValueError"}
          /\ ctor.retriever = NoAttrs
    /\ ctor.retriever = NoAttrs => ctor.retrieve_calls = 0
    /\ ctor.retrieve_calls > 0 =>
          /\ ctor.retriever._collection = "loaded"
          /\ ctor.retriever._bm25 = "loaded"
          /\ ctor.retriever._bm25_ids = "loaded"

\* C24 witness: a construction over a meta file whose "ids" is not a list
\* has ended with ValueError, after the collection was loaded, and left no
\* retriever
WitCtorFails ==
    /\ ctor.pc = "raised"
    /\ ctor.error = "ValueError"
    /\ ctor.disk.meta.has_ids /\ ~ctor.disk.meta.ids_is_list
    /\ ctor.self._collection = "loaded"
    /\ ctor.retriever = NoAttrs

----------------------------------------------------------------------------
(* Properties of the index builder *)

\* load_from_chroma has left its loop
Loaded == builder.pc \notin {"start", "loop"}

\* positions of the id in the builder's id list
PositionsOf(id) == {j \in 1..Len(builder.ids) : builder.ids[j] = id}

\* C25: once load_from_chroma has left its loop, ids and docs have equal
\* length, position j of ids is the id of the row whose document is at
\* position j of docs, every row with usable text is there exactly once,
\* rows without text are in neither list; a search hit on the saved index
\* is mapped to the id of the row that holds the hit's document; and the
\* paging loop always ends
ThmAligned ==
    /\ [](Loaded =>
            /\ Len(builder.ids) = Len(builder.docs)
            /\ \A j \in 1..Len(builder.ids) :
                  \E i \in 1..Len(builder.rows) :
                     /\ builder.rows[i].id = builder.ids[j]
                     /\ builder.rows[i].doc = builder.docs[j]
            /\ \A i \in 1..Len(builder.rows) :
                  Cardinality(PositionsOf(builder.rows[i].id))
                     = IF Unusable(builder.rows[i].doc) THEN 0 ELSE 1)
    /\ [](builder.pc = "searched" =>
            \E i \in 1..Len(builder.rows) :
               /\ builder.rows[i].id = builder.hit.id
               /\ builder.rows[i].doc = builder.hit.doc)
    /\ <>Loaded

\* C25 witness: three rows were read in two pages, the row in the middle
\* had no text, the other two hold the same text, and a search hit on the
\* second document was mapped to the id of the third row
WitAligned ==
    /\ builder.pc = "searched"
    /\ Len(builder.rows) = 3
    /\ builder.total > PageSize
    /\ Unusable(builder.rows[2].doc)
    /\ builder.rows[1].doc = builder.rows[3].doc
    /\ Len(builder.ids) = 2
    /\ builder.hit.id = builder.rows[3].id

----------------------------------------------------------------------------
(* Properties of retrieve_context *)

\* a is b with some elements left out
RECURSIVE IsSubsequence(_, _)
IsSubsequence(a, b) ==
    IF a = <<>> THEN TRUE
    ELSE IF b = <<>> THEN FALSE
    ELSE IF Head(a) = Head(b) THEN IsSubsequence(Tail(a), Tail(b))
    ELSE IsSubsequence(a, Tail(b))

\* ids of the references retrieve_context returned, in order
RefIds == [j \in 1..Len(bridge.refs) |-> bridge.refs[j].id]

\* C26: the list retrieve_context returns is an order-preserving
\* subsequence of the retriever's list, holds each id at most once, and has
\* at most k_eff entries, k_eff being the argument k when it is a positive
\* integer and the configured default otherwise
ThmBridgeSubsequence ==
    bridge.pc = "returned" =>
        /\ IsSubsequence(RefIds, bridge.raw)
        /\ \A i, j \in 1..Len(RefIds) : i # j => RefIds[i] # RefIds[j]
        /\ Len(RefIds) <= bridge.k_eff
        /\ bridge.k_eff = IF bridge.k.type \in {"int", "bool"} /\ bridge.k.v > 0
                          THEN bridge.k.v
                          ELSE bridge.config.k_default

\* C26 witness: the retriever's list held an id twice, the call was made
\* with k = 2, and two references came back
WitBridgeSubsequence ==
    /\ bridge.pc = "returned"
    /\ bridge.k = [type |-> "int", v |-> 2]
    /\ bridge.config.k_default = 1
    /\ Len(bridge.raw) = 3
    /\ bridge.raw[1] = bridge.raw[2]
    /\ Len(bridge.refs) = 2

\* the chapter an item belongs to: its label without surrounding blanks,
\* all items without a label forming one chapter
ChapterOf(id) ==
    IF bridge.labels[id] = "" THEN "_unknown_" ELSE Strip(bridge.labels[id])

Excluded(id) == bridge.config.use_filters /\ ChapterOf(id) \in ExcludeChapters

\* ids of the chapter of raw[i] that are listed before position i and not
\* excluded
EarlierOfChapter(i) ==
    {bridge.raw[j] : j \in {x \in 1..(i - 1) :
                               /\ ChapterOf(bridge.raw[x])
                                     = ChapterOf(bridge.raw[i])
                               /\ ~Excluded(bridge.raw[x])}}

\* C27: in the list retrieve_context returns, with the exclusion filter on
\* no item is of an excluded chapter, with the cap on no chapter has more
\* than max_per_chapter items, and an id of the retriever's list is
\* missing only if its chapter is excluded, or its chapter had reached the
\* cap before it, or the list is full (k_eff entries); a repeated id is
\* represented by its first occurrence
ThmBridgeFilters ==
    bridge.pc = "returned" =>
        /\ bridge.config.use_filters =>
              \A j \in 1..Len(RefIds) : ChapterOf(RefIds[j]) \notin ExcludeChapters
        /\ bridge.config.use_per_chapter_cap =>
              \A j \in 1..Len(RefIds) :
                 Cardinality({x \in 1..Len(RefIds) :
                                 ChapterOf(RefIds[x]) = ChapterOf(RefIds[j])})
                    <= bridge.config.max_per_chapter
        /\ \A i \in 1..Len(bridge.raw) :
              (\A j \in 1..Len(RefIds) : RefIds[j] # bridge.raw[i]) =>
                 \/ Excluded(bridge.raw[i])
                 \/ /\ bridge.config.use_per_chapter_cap
                    /\ Cardinality(EarlierOfChapter(i))
                          >= bridge.config.max_per_chapter
                 \/ Len(RefIds) = bridge.k_eff

\* C27 witness: with filter and cap on, cap 1, the retriever listed an
\* excluded item, then two items of one chapter spelled in two ways, and
\* only the first of these came back although k allowed two
WitBridgeFilters ==
    /\ bridge.pc = "returned"
    /\ bridge.config.use_filters /\ bridge.config.use_per_chapter_cap
    /\ bridge.config.max_per_chapter = 1
    /\ bridge.k_eff = 2
    /\ Len(bridge.raw) = 3
    /\ bridge.labels[bridge.raw[1]] = "Index"
    /\ bridge.labels[bridge.raw[2]] = "Ch1 "
    /\ bridge.labels[bridge.raw[3]] = "Ch1"
    /\ RefIds = <<bridge.raw[2]>>

----------------------------------------------------------------------------
(* Properties of the cached retriever *)

\* C28: over any calls of retrieve_context in one process, overlapping or
\* not, HybridRetrieverV4 is constructed at most once and every call uses
\* the one cached instance
ClaimConstructedOnce ==
    /\ cache.constructed <= 1
    /\ \A t \in Sessions :
          /\ cache.threads[t].used \subseteq {cache.entry}
          /\ cache.threads[t].pc = "retrieve" =>
                cache.threads[t].retriever = cache.entry

----------------------------------------------------------------------------
(* Properties of the evaluation run *)

\* C30: the k written under params in the run summary is the k of --k,
\* which is the k passed to every retrieve call and used for the metrics
ClaimRecordedK ==
    evalrun.pc = "written" =>
        /\ evalrun.params.k = evalrun.args.k
        /\ evalrun.params.k = evalrun.summary.k
        /\ \A j \in 1..Len(evalrun.retrieve_k) :
              /\ evalrun.retrieve_k[j] = evalrun.params.k
              /\ evalrun.metrics_k[j] = evalrun.params.k

----------------------------------------------------------------------------
(* Properties of the records of a successful call *)

\* ids the two branches returned to this call
BranchIds == IdsOf(dense) \cup IdsOf(sparse)

\* the effective k: the argument k, or final_k of the configuration when
\* k is None or 0
EffectiveK == IF k_arg = <<>> \/ k_arg = <<0>> THEN cfg.final_k ELSE k_arg[1]

\* C29: the records a successful call of retrieve returns have pairwise
\* distinct ids, each of them returned by the dense or the sparse branch,
\* and there are at most effective-k of them and at most as many as the
\* branches returned distinct ids
ClaimDistinctBounded ==
    Hydrated =>
        /\ \A i, j \in 1..Len(PayloadIds) : i # j => PayloadIds[i] # PayloadIds[j]
        /\ IdsOf(PayloadIds) \subseteq BranchIds
        /\ Len(PayloadIds) <= EffectiveK
        /\ Len(PayloadIds) <= Cardinality(BranchIds)

====
